---- MODULE Spec2Model ----
(***************************************************************************)
(* goog.net.XhrIo (closure/goog/net/xhrio.js): the request-lifecycle       *)
(* controller around one XMLHttpRequest-like transport handle.             *)
(*                                                                         *)
(* JavaScript runs one call stack at a time, but the controller is         *)
(* re-entered from inside its own calls: the transport may invoke          *)
(* onreadystatechange synchronously from open/send/abort, and an event     *)
(* listener may call send/abort/dispose from inside dispatchEvent.  The    *)
(* model therefore keeps the call stack explicitly: a frame per function   *)
(* that is suspended at a call into the transport or at a dispatchEvent,   *)
(* and one action per stretch of code between two such points.             *)
(***************************************************************************)
EXTENDS Integers, Sequences, FiniteSets, TLC

\* ------------------------------------------------------------------ bounds
MaxSends == 2      \* send() calls that get past the precondition (= handles created)
MaxNotify == 2     \* readiness notifications the transport delivers in a run
MaxReentry == 1    \* calls listeners make back into the controller in a run

\* --------------------------------------------------------------- constants
Null == 0                      \* null reference (handle ids and timer ids start at 1)

\* goog.net.XmlHttp.ReadyState
UNINITIALIZED == 0
LOADING == 1
LOADED == 2
INTERACTIVE == 3
COMPLETE == 4

\* readiness values and statuses the transport reports in a notification
NotifyReadyStates == {LOADING, INTERACTIVE, COMPLETE}
Statuses == {0, 2, 200, 404}
\* the statuses reported where only the classification of the status matters
ClassifyStatuses == {0, 200, 304, 404}

\* the interval passed to setTimeoutInterval (negative, none, some)
Intervals == {-1, 0, 30}

\* the requests a caller issues: url, opt_method ("" when omitted),
\* opt_headers (the name and value pairs of the object or map; none when
\* omitted) and opt_content
Request(url, method) == [url |-> url, method |-> method, headers |-> <<>>, content |-> ""]
Requests == { Request("http://x/y", "post"), Request("file:///a", "") }
\* and where only the scheme of the url matters
ClassifyRequests ==
  Requests \cup { Request("HTTPS://x/y", ""), Request("Http://x/y", ""),
                  Request("ftp://x/y", "") }
\* and where only the headers matter
HeaderMethods == {"", "get", "post", "Put"}
OptHeaders ==
  { <<>>,
    << <<"X-A", "2">> >>,
    << <<"X-B", "3">>, <<"X-A", "2">> >>,
    << <<"content-type", "text/plain">> >>,
    << <<"X-B", "3">>, <<"Content-Type", "text/xml">> >> }
Contents == {"", "text", "FormData"}
HeaderRequests ==
  { [url |-> "http://x/y", method |-> m, headers |-> o, content |-> c] :
      m \in HeaderMethods, o \in OptHeaders, c \in Contents }
\* the headers user code puts into the public map
BaseHeaders == { <<"X-A", "1">>, <<"X-C", "1">>, <<"CONTENT-TYPE", "text/html">> }

\* The platform: the options of goog.net.XmlHttp.getOptions() (set for the
\* ActiveX transport of old IE), whether the handle has the level 2 timeout
\* fields on IE 9+, and whether assigning onreadystatechange throws (Gears).
Platforms ==
  { [localRequestError |-> FALSE, useNullFunction |-> FALSE, xhr2Timeout |-> FALSE, detachThrows |-> FALSE],
    [localRequestError |-> TRUE,  useNullFunction |-> TRUE,  xhr2Timeout |-> FALSE, detachThrows |-> FALSE],
    [localRequestError |-> FALSE, useNullFunction |-> FALSE, xhr2Timeout |-> TRUE,  detachThrows |-> FALSE],
    [localRequestError |-> FALSE, useNullFunction |-> FALSE, xhr2Timeout |-> FALSE, detachThrows |-> TRUE] }

VARIABLES
  \* the controller's fields
  active, xhr, lastUri, lastMethod, lastErrorCode, lastError, errorDispatched,
  inSend, inOpen, inAbort, timeoutInterval, timeoutId, useXhr2Timeout, disposed,
  \* the environment: platform, transport handles, goog.Timer
  platform, handles, timers, deferred,
  \* the call stack and the exception being propagated
  stack, exc,
  \* history: the events dispatched since user code last began a request,
  \* each with the cycle (from a send() until the next send()) it falls in,
  \* and the first cycle so logged; handles created (= cycles begun);
  \* notifications and listener calls so far; the failure origins met in the
  \* current cycle
  events, logged, cycle, notified, reentry, failures,
  \* the public map of the headers added to every request, and the calls of
  \* setRequestHeader received by the handle of the latest send()
  headers, sentHeaders,
  \* what the latest call of a response accessor returned
  ret,
  \* the static send(): the registry of its controllers (this controller is
  \* 1, another one, seen from outside, is 2), that other controller, the
  \* calls of the caller's callback, and the registry as the latest call of
  \* the static cleanup() found it
  sendInstances, peer, callbacks, tracked,
  \* goog.dom.classes: the className of an element, as the sequence of its
  \* characters, and the latest call with its arguments and what it returned
  className, called

reqVars == <<lastUri, lastMethod>>
errVars == <<lastErrorCode, lastError>>
guardVars == <<inSend, inOpen, inAbort>>
tmoVars == <<timeoutId, timers, useXhr2Timeout>>
histVars == <<logged, cycle, notified, reentry, failures>>
\* what send() leaves alone, and what the rest of the life cycle does
static == <<sendInstances, peer, callbacks, tracked>>
rest == <<headers, ret, static, className, called>>
others == <<sentHeaders, rest>>
ctrlVars == <<active, xhr, lastUri, lastMethod, lastErrorCode, lastError,
              errorDispatched, inSend, inOpen, inAbort, timeoutInterval,
              timeoutId, useXhr2Timeout, disposed>>
vars == <<active, xhr, lastUri, lastMethod, lastErrorCode, lastError,
          errorDispatched, inSend, inOpen, inAbort, timeoutInterval, timeoutId,
          useXhr2Timeout, disposed, platform, handles, timers, deferred,
          stack, exc, events, logged, cycle, notified, reentry, failures,
          headers, sentHeaders, ret, sendInstances, peer, callbacks, tracked,
          className, called>>

\* ------------------------------------------------------------- call stack
\* fn and pc: the function and where it is suspended; code: its error code
\* argument (for a listener, the event); h: the handle it has called into,
\* or the one held when it dispatched COMPLETE.
\* History kept with the frame: mark, the number of events logged at the
\* point a property of the frame starts from (-1: none); n, the
\* notifications the transport delivered inside the frame's call into it.
Frame(fn, pc, code, h) ==
  [fn |-> fn, pc |-> pc, code |-> code, h |-> h, mark |-> -1, n |-> 0,
   req |-> Request("", "")]
Marked(f, m) == [f EXCEPT !.mark = m]
\* an entry of the event log
Ev(e) == [e |-> e, c |-> cycle]
Top == stack[Len(stack)]
Pop == SubSeq(stack, 1, Len(stack) - 1)
Goto(pc) == [stack EXCEPT ![Len(stack)].pc = pc]
At(fn, pc) == stack # <<>> /\ exc = "none" /\ Top.fn = fn /\ Top.pc = pc

\* A transport handle as the controller sees it.
NewHandle == [readyState |-> UNINITIALIZED, status |-> 0,
              onreadystatechange |-> "null", ontimeout |-> FALSE]

Init ==
  /\ active = FALSE
  /\ xhr = Null
  /\ lastUri = ""
  /\ lastMethod = ""
  /\ lastErrorCode = "NO_ERROR"
  /\ lastError = ""
  /\ errorDispatched = FALSE
  /\ inSend = FALSE
  /\ inOpen = FALSE
  /\ inAbort = FALSE
  /\ timeoutInterval = 0
  /\ timeoutId = Null
  /\ useXhr2Timeout = FALSE
  /\ disposed = FALSE
  /\ platform \in Platforms
  /\ handles = [h \in 1..MaxSends |-> NewHandle]
  /\ timers = {}
  /\ deferred = 0
  /\ stack = <<>>
  /\ exc = "none"
  /\ events = <<>>
  /\ logged = 1
  /\ cycle = 0
  /\ notified = 0
  /\ reentry = 0
  /\ failures = {}
  /\ headers = <<>>
  /\ sentHeaders = <<>>
  /\ ret = [fn |-> "", value |-> "", handle |-> FALSE, throws |-> FALSE]
  /\ sendInstances = <<>>
  /\ peer = [active |-> FALSE, timer |-> FALSE, disposed |-> FALSE]
  /\ callbacks = 0
  /\ tracked = {}
  /\ className = <<>>
  /\ called = [fn |-> "", args |-> <<>>, before |-> <<>>, value |-> FALSE]


\* ------------------------------------------------------ pure helper logic

\* String.prototype.toUpperCase on the method names used here.
toUpperCase(m) ==
  CASE m = "post" -> "POST"
    [] m = "put" -> "PUT"
    [] m = "Put" -> "PUT"
    [] m = "get" -> "GET"
    [] OTHER -> m

\* goog.uri.utils.getEffectiveScheme: the scheme of the url, as written.
getEffectiveScheme(url) ==
  CASE url = "http://x/y" -> "http"
    [] url = "file:///a" -> "file"
    [] url = "HTTPS://x/y" -> "HTTPS"
    [] url = "Http://x/y" -> "Http"
    [] url = "ftp://x/y" -> "ftp"
    [] OTHER -> "http"

\* String.prototype.toLowerCase on the schemes used here.
toLowerCase(s) ==
  CASE s = "HTTPS" -> "https"
    [] s = "Http" -> "http"
    [] s = "Content-Type" -> "content-type"
    [] s = "CONTENT-TYPE" -> "content-type"
    [] s = "X-A" -> "x-a"
    [] s = "X-B" -> "x-b"
    [] s = "X-C" -> "x-c"
    [] OTHER -> s

\* Variant of the pattern without the i flag.
HTTP_SCHEME_PATTERN_CaseSensitive(scheme) == scheme \in {"http", "https"}

\* HTTP_SCHEME_PATTERN.test(scheme), the pattern being /^https?$/i
HTTP_SCHEME_PATTERN(scheme) == toLowerCase(scheme) \in {"http", "https"}

isLastUriEffectiveSchemeHttp_ == HTTP_SCHEME_PATTERN(getEffectiveScheme(lastUri))

\* goog.net.HttpStatus.isSuccess
HttpStatusIsSuccess(status) == status \in {200, 201, 202, 204, 206, 304, 1223}

getReadyState(hs) == IF xhr # Null THEN hs[xhr].readyState ELSE UNINITIALIZED

\* Variant that, without a handle, reads the readiness of the handle whose
\* notification is being handled.
isCompleteOfNotifier(hs) ==
  IF xhr # Null THEN hs[xhr].readyState = COMPLETE
  ELSE stack # <<>> /\ Top.h # Null /\ hs[Top.h].readyState = COMPLETE

\* isComplete(): without a handle the readiness is UNINITIALIZED
isComplete(hs) == getReadyState(hs) = COMPLETE

getStatus(hs) == IF getReadyState(hs) > LOADED THEN hs[xhr].status ELSE -1

isSuccess(hs) ==
  LET status == getStatus(hs)
  IN HttpStatusIsSuccess(status) \/ (status = 0 /\ ~isLastUriEffectiveSchemeHttp_)

shouldUseXhr2Timeout_ == platform.xhr2Timeout

\* goog.structs.Map as the sequence of its <<key, value>> entries, in the
\* order of insertion, which is the order forEach visits them in.
MapContainsKey(m, key) == \E i \in DOMAIN m : m[i][1] = key

\* Variant of set that adds an entry even when the key has one.
MapSetNoReplace(m, key, value) == Append(m, <<key, value>>)

\* Map.set: replaces the value of a key it has, adds an entry otherwise.
MapSet(m, key, value) ==
  IF MapContainsKey(m, key)
  THEN [i \in DOMAIN m |-> IF m[i][1] = key THEN <<key, value>> ELSE m[i]]
  ELSE Append(m, <<key, value>>)

\* goog.structs.forEach(opt_headers, ... headers.set(key, value))
RECURSIVE MapSetAll(_, _)
MapSetAll(m, entries) ==
  IF entries = <<>> THEN m
  ELSE MapSetAll(MapSet(m, entries[1][1], entries[1][2]), Tail(entries))

CONTENT_TYPE_HEADER == "Content-Type"
FORM_CONTENT_TYPE == "application/x-www-form-urlencoded;charset=utf-8"
METHODS_WITH_FORM_DATA == {"POST", "PUT"}

\* Variant that compares the key as written.
isContentTypeHeader_CaseSensitive(header) == header = CONTENT_TYPE_HEADER

\* goog.string.caseInsensitiveEquals(CONTENT_TYPE_HEADER, header)
isContentTypeHeader_(header) == toLowerCase(CONTENT_TYPE_HEADER) = toLowerCase(header)

\* send(): the headers of the request, from the public map, opt_headers and
\* the default content type of the methods that carry form data.
RequestHeaders(req) ==
  LET method == IF req.method # "" THEN toUpperCase(req.method) ELSE "GET"
      merged == MapSetAll(headers, req.headers)
      contentTypeKey == \E i \in DOMAIN merged : isContentTypeHeader_(merged[i][1])
      contentIsFormData == req.content = "FormData"
  IN IF method \in METHODS_WITH_FORM_DATA /\ ~contentTypeKey /\ ~contentIsFormData
     THEN MapSet(merged, CONTENT_TYPE_HEADER, FORM_CONTENT_TYPE)
     ELSE merged

\* Variant of send() that works on this.headers itself, without clone().
HeadersShared(req) == RequestHeaders(req)

\* send(): var headers = this.headers.clone(), so that what send() sets goes
\* to the copy; this.headers after the merge of the request req.
HeadersAfterSend(req) == headers


\* dispatchEvent reaches the listeners, which may call back into the
\* controller; a disposed event target has no listeners left.
Listeners(stk, ev) ==
  IF disposed \/ reentry >= MaxReentry THEN stk
  ELSE Append(stk, Frame("listener", "fresh", ev, Null))

\* A caller of a public method: user code at top level, or a listener.
Idle == stack = <<>> /\ exc = "none"
Caller ==
  /\ exc = "none"
  /\ IF stack = <<>> THEN TRUE ELSE Top.fn = "listener" /\ Top.pc = "fresh"
Called(method) == IF stack = <<>> THEN stack ELSE Goto(method)
ReentryCount == IF stack = <<>> THEN reentry ELSE reentry + 1

\* xhr.onreadystatechange = clearedOnReadyStateChange, in its try/catch
Detach(hs, h) ==
  IF platform.detachThrows THEN hs
  ELSE [hs EXCEPT ![h].onreadystatechange =
          IF platform.useNullFunction THEN "nullFunction" ELSE "null"]

\* Variant that leaves the handle's timeout callback in place.
ClearOnTimeoutKeeps(hs) == hs

\* cleanUpTimeoutTimer_, the part on the handle
ClearOnTimeout(hs) ==
  IF xhr # Null /\ useXhr2Timeout THEN [hs EXCEPT ![xhr].ontimeout = FALSE] ELSE hs

\* ------------------------------------------------ shared pieces of methods
\* Each states the next value of the variables named in its comment; the
\* action using it states the rest.

\* The frame of cleanUpXhr_ while READY is dispatched.  It keeps what called
\* it (code), the notifications that caller got inside its call into the
\* transport and, when the handle released is the one the caller held at its
\* COMPLETE, the caller's mark.
CleanUpFrame ==
  IF stack = <<>> THEN Frame("cleanUpXhr_", "detach", "", xhr)
  ELSE [Frame("cleanUpXhr_", "detach",
              IF Top.code = "deferred" THEN "deferred" ELSE Top.fn, xhr)
          EXCEPT !.mark = IF Top.h = xhr THEN Top.mark ELSE -1,
                 !.n = Top.n]

\* Variant of cleanUpXhr_ that releases the handle without ever dispatching
\* READY.
cleanUpXhr_NoReady(fromDispose, stk) ==
  IF xhr = Null
  THEN /\ stack' = stk
       /\ UNCHANGED <<xhr, timeoutId, timers, handles, events>>
  ELSE /\ timers' = timers \ {timeoutId}
       /\ timeoutId' = Null
       /\ xhr' = Null
       /\ handles' = Detach(ClearOnTimeout(handles), xhr)
       /\ stack' = stk
       /\ UNCHANGED events

\* Variant of cleanUpXhr_ that dispatches READY on disposal too.
cleanUpXhr_ReadyOnDispose(fromDispose, stk) ==
  IF xhr = Null
  THEN /\ stack' = stk
       /\ UNCHANGED <<xhr, timeoutId, timers, handles, events>>
  ELSE /\ timers' = timers \ {timeoutId}
       /\ timeoutId' = Null
       /\ xhr' = Null
       /\ handles' = ClearOnTimeout(handles)
       /\ events' = Append(events, Ev("READY"))
       /\ stack' = Listeners(Append(stk, CleanUpFrame), "READY")

\* cleanUpXhr_(opt_fromDispose) called by the frame on top, then return into
\* stk.
\* xhr, timeoutId, timers, handles, events, stack
cleanUpXhr_(fromDispose, stk) ==
  IF xhr = Null
  THEN /\ stack' = stk
       /\ UNCHANGED <<xhr, timeoutId, timers, handles, events>>
  ELSE /\ timers' = timers \ {timeoutId}
       /\ timeoutId' = Null
       /\ xhr' = Null
       /\ IF fromDispose
          THEN /\ handles' = Detach(ClearOnTimeout(handles), xhr)
               /\ stack' = stk
               /\ UNCHANGED events
          ELSE /\ handles' = ClearOnTimeout(handles)
               /\ events' = Append(events, Ev("READY"))
               /\ stack' = Listeners(Append(stk, CleanUpFrame), "READY")

\* Variant of abort that acts whenever a handle is present, active or not.
abortIgnoringActive(code, stk) ==
  IF xhr # Null
  THEN /\ active' = FALSE
       /\ inAbort' = TRUE
       /\ stack' = Append(stk, Marked(Frame("abort", "xabort", code, xhr), Len(events)))
  ELSE /\ stack' = stk
       /\ UNCHANGED <<active, inAbort>>

\* abort(opt_failureCode) up to its call of xhr.abort().
\* active, inAbort, stack
abort(code, stk) ==
  IF xhr # Null /\ active
  THEN /\ active' = FALSE
       /\ inAbort' = TRUE
       /\ stack' = Append(stk, Marked(Frame("abort", "xabort", code, xhr), Len(events)))
  ELSE /\ stack' = stk
       /\ UNCHANGED <<active, inAbort>>

\* error_: lastError_, lastErrorCode_, dispatchErrors_ up to COMPLETE.
\* lastError, lastErrorCode, errorDispatched, events, stack
errorTail(code, stk) ==
  /\ lastError' = "exception"
  /\ lastErrorCode' = code
  /\ IF ~errorDispatched
     THEN /\ errorDispatched' = TRUE
          /\ events' = Append(events, Ev("COMPLETE"))
          /\ stack' = Listeners(Append(stk, Marked(Frame("error_", "errors", code, xhr),
                                                   Len(events))),
                                "COMPLETE")
     ELSE /\ stack' = Append(stk, Frame("error_", "cleanup", code, xhr))
          /\ UNCHANGED <<errorDispatched, events>>

\* error_(errorCode, err) up to its call of xhr.abort(), or, without a
\* handle, up to COMPLETE.
\* active, inAbort, lastError, lastErrorCode, errorDispatched, events, stack
error_(code, stk) ==
  /\ active' = FALSE
  /\ IF xhr # Null
     THEN /\ inAbort' = TRUE
          /\ stack' = Append(stk, Frame("error_", "xabort", code, xhr))
          /\ UNCHANGED <<lastError, lastErrorCode, errorDispatched, events>>
     ELSE /\ errorTail(code, stk)
          /\ UNCHANGED inAbort

\* Variant of timeout_ that aborts without dispatching TIMEOUT.
timeout_NoEvent(stk) ==
  IF xhr # Null
  THEN /\ lastError' = "Timed out"
       /\ lastErrorCode' = "TIMEOUT"
       /\ stack' = Append(stk, Frame("timeout_", "abort", "TIMEOUT", Null))
       /\ UNCHANGED events
  ELSE /\ stack' = stk
       /\ UNCHANGED <<lastError, lastErrorCode, events>>

\* Variant of timeout_ without the test of this.xhr_.
timeout_Unguarded(stk) ==
  /\ lastError' = "Timed out"
  /\ lastErrorCode' = "TIMEOUT"
  /\ events' = Append(events, Ev("TIMEOUT"))
  /\ stack' = Listeners(Append(stk, Frame("timeout_", "abort", "TIMEOUT", Null)),
                        "TIMEOUT")

\* timeout_ up to the TIMEOUT event.
\* lastError, lastErrorCode, events, stack
timeout_(stk) ==
  IF xhr # Null
  THEN /\ lastError' = "Timed out"
       /\ lastErrorCode' = "TIMEOUT"
       /\ events' = Append(events, Ev("TIMEOUT"))
       /\ stack' = Listeners(Append(stk, Frame("timeout_", "abort", "TIMEOUT", Null)),
                             "TIMEOUT")
  ELSE /\ stack' = stk
       /\ UNCHANGED <<lastError, lastErrorCode, events>>

\* Variant of the handler that does not defer a notification with complete
\* readiness received inside send().
onReadyStateChange_NoDefer(hs, stk, d, from) ==
  /\ handles' = hs
  /\ deferred' = d
  /\ IF disposed \/ ~active
     THEN /\ stack' = stk
          /\ UNCHANGED <<events, exc>>
     ELSE IF xhr = Null
     THEN /\ exc' = "TypeError"
          /\ stack' = stk
          /\ UNCHANGED events
     ELSE IF platform.localRequestError /\ isComplete(hs) /\ getStatus(hs) = 2
     THEN /\ stack' = stk
          /\ UNCHANGED <<events, exc>>
     ELSE /\ events' = Append(events, Ev("READY_STATE_CHANGE"))
          /\ stack' = Listeners(Append(stk, Marked(Frame("onReadyStateChange_", "rsc", from, xhr),
                                                   Len(events))),
                                "READY_STATE_CHANGE")
          /\ UNCHANGED exc

\* Variant of the handler without the test of isDisposed().
onReadyStateChange_Undisposed(hs, stk, d, from) ==
  /\ handles' = hs
  /\ IF ~active
     THEN /\ stack' = stk
          /\ deferred' = d
          /\ UNCHANGED <<events, exc>>
     ELSE IF xhr = Null
     THEN \* this.xhrOptions_ is null
          /\ exc' = "TypeError"
          /\ stack' = stk
          /\ deferred' = d
          /\ UNCHANGED events
     ELSE IF platform.localRequestError /\ isComplete(hs) /\ getStatus(hs) = 2
     THEN /\ stack' = stk
          /\ deferred' = d
          /\ UNCHANGED <<events, exc>>
     ELSE IF inSend /\ isComplete(hs)
     THEN /\ deferred' = d + 1
          /\ stack' = stk
          /\ UNCHANGED <<events, exc>>
     ELSE /\ events' = Append(events, Ev("READY_STATE_CHANGE"))
          /\ stack' = Listeners(Append(stk, Marked(Frame("onReadyStateChange_", "rsc", from, xhr),
                                                   Len(events))),
                                "READY_STATE_CHANGE")
          /\ deferred' = d
          /\ UNCHANGED exc

\* onReadyStateChange_ and onReadyStateChangeHelper_ up to the
\* READY_STATE_CHANGE event, with hs the handles as the transport left them,
\* d the zero-delay timers pending besides and from what called it: the
\* transport ("") or a zero-delay timer ("deferred").
\* handles, deferred, events, stack, exc
onReadyStateChange_(hs, stk, d, from) ==
  /\ handles' = hs
  /\ IF disposed \/ ~active
     THEN /\ stack' = stk
          /\ deferred' = d
          /\ UNCHANGED <<events, exc>>
     ELSE IF xhr = Null
     THEN \* this.xhrOptions_ is null
          /\ exc' = "TypeError"
          /\ stack' = stk
          /\ deferred' = d
          /\ UNCHANGED events
     ELSE IF platform.localRequestError /\ isComplete(hs) /\ getStatus(hs) = 2
     THEN /\ stack' = stk
          /\ deferred' = d
          /\ UNCHANGED <<events, exc>>
     ELSE IF inSend /\ isComplete(hs)
     THEN /\ deferred' = d + 1
          /\ stack' = stk
          /\ UNCHANGED <<events, exc>>
     ELSE /\ events' = Append(events, Ev("READY_STATE_CHANGE"))
          /\ stack' = Listeners(Append(stk, Marked(Frame("onReadyStateChange_", "rsc", from, xhr),
                                                   Len(events))),
                                "READY_STATE_CHANGE")
          /\ deferred' = d
          /\ UNCHANGED exc


\* ---------------------------------------------------------- public methods

\* Variant of send that does not check that the controller is free.
SendUnchecked(req) ==
  /\ Caller
  /\ ~disposed
  /\ cycle < MaxSends
  /\ sentHeaders' = <<>>
  /\ lastUri' = req.url
  /\ lastError' = ""
  /\ lastErrorCode' = "NO_ERROR"
  /\ lastMethod' = IF req.method # "" THEN toUpperCase(req.method) ELSE "GET"
  /\ errorDispatched' = FALSE
  /\ active' = TRUE
  /\ xhr' = cycle + 1
  /\ handles' = [handles EXCEPT ![cycle + 1].onreadystatechange = "bound"]
  /\ inOpen' = TRUE
  /\ stack' = Append(Called("send"),
                              [Frame("send", "open", "", cycle + 1) EXCEPT !.req = req])
  /\ cycle' = cycle + 1
  /\ failures' = {}
  /\ IF stack = <<>>
     THEN /\ events' = <<>>
          /\ logged' = cycle + 1
     ELSE UNCHANGED <<events, logged>>
  /\ reentry' = ReentryCount
  /\ UNCHANGED <<inSend, inAbort, timeoutInterval, tmoVars, disposed,
                 platform, deferred, exc, notified>>
  /\ UNCHANGED rest

\* send(url, opt_method): the precondition, the reset of the per-request
\* fields, the new handle and its callback, up to the call of xhr.open().
Send(req) ==
  /\ Caller
  /\ ~disposed
  /\ IF xhr # Null
     THEN /\ exc' = "precondition"
          /\ stack' = Called("send")
          /\ reentry' = ReentryCount
          /\ UNCHANGED <<ctrlVars, platform, handles, timers, deferred,
                         events, logged, cycle, notified, failures, sentHeaders>>
     ELSE /\ cycle < MaxSends
          /\ sentHeaders' = <<>>
          /\ lastUri' = req.url
          /\ lastError' = ""
          /\ lastErrorCode' = "NO_ERROR"
          /\ lastMethod' = IF req.method # "" THEN toUpperCase(req.method) ELSE "GET"
          /\ errorDispatched' = FALSE
          /\ active' = TRUE
          /\ xhr' = cycle + 1
          /\ handles' = [handles EXCEPT ![cycle + 1].onreadystatechange = "bound"]
          /\ inOpen' = TRUE
          /\ stack' = Append(Called("send"),
                              [Frame("send", "open", "", cycle + 1) EXCEPT !.req = req])
          /\ cycle' = cycle + 1
          /\ failures' = {}
          /\ IF stack = <<>>
             THEN /\ events' = <<>>
                  /\ logged' = cycle + 1
             ELSE UNCHANGED <<events, logged>>
          /\ reentry' = ReentryCount
          /\ UNCHANGED <<inSend, inAbort, timeoutInterval, tmoVars, disposed,
                         platform, deferred, exc, notified>>
  /\ UNCHANGED rest

\* xhr.open() returned: the headers, the options and the timeout, up to the
\* call of xhr.send().  xhr_ is null here when a listener aborted the
\* request during open(): setRequestHeader / containsKey on null throw.
XhrOpenReturns ==
  /\ At("send", "open")
  /\ inOpen' = FALSE
  /\ IF xhr = Null
     THEN /\ exc' = "TypeError"
          /\ stack' = Pop
          /\ UNCHANGED <<inSend, tmoVars, handles, sentHeaders>>
     ELSE /\ inSend' = TRUE
          /\ sentHeaders' = sentHeaders \o RequestHeaders(Top.req)
          /\ stack' = [stack EXCEPT ![Len(stack)] = Frame("send", "xsend", "", xhr)]
          /\ exc' = exc
          /\ IF timeoutInterval > 0
             THEN /\ useXhr2Timeout' = shouldUseXhr2Timeout_
                  /\ IF shouldUseXhr2Timeout_
                     THEN /\ handles' = [ClearOnTimeout(handles) EXCEPT ![xhr].ontimeout = TRUE]
                          /\ timers' = timers \ {timeoutId}
                          /\ timeoutId' = Null
                     ELSE /\ handles' = ClearOnTimeout(handles)
                          /\ timers' = (timers \ {timeoutId}) \cup {cycle}
                          /\ timeoutId' = cycle
             ELSE /\ handles' = ClearOnTimeout(handles)
                  /\ timers' = timers \ {timeoutId}
                  /\ timeoutId' = Null
                  /\ UNCHANGED useXhr2Timeout
  /\ UNCHANGED <<active, xhr, reqVars, errVars, errorDispatched, inAbort,
                 timeoutInterval, disposed, platform, deferred, events, histVars>>
  /\ headers' = HeadersAfterSend(Top.req)
  /\ UNCHANGED <<ret, static, className, called>>

\* xhr.open() threw: the catch calls error_(EXCEPTION) and returns; inOpen_
\* is left as it is.
XhrOpenThrows ==
  /\ At("send", "open")
  /\ error_("EXCEPTION", Goto("ret"))
  /\ failures' = failures \cup {"open"}
  /\ UNCHANGED <<xhr, reqVars, inSend, inOpen, timeoutInterval, tmoVars, disposed,
                 platform, handles, deferred, exc, logged, cycle, notified, reentry>>
  /\ UNCHANGED others

\* xhr.send() returned.
XhrSendReturns ==
  /\ At("send", "xsend")
  /\ inSend' = FALSE
  /\ stack' = Pop
  /\ UNCHANGED <<active, xhr, reqVars, errVars, errorDispatched, inOpen, inAbort,
                 timeoutInterval, tmoVars, disposed, platform, handles, deferred,
                 exc, events, histVars>>
  /\ UNCHANGED others

\* xhr.send() threw: the catch calls error_(EXCEPTION); inSend_ is left as
\* it is.
XhrSendThrows ==
  /\ At("send", "xsend")
  /\ error_("EXCEPTION", Goto("ret"))
  /\ failures' = failures \cup {"send"}
  /\ UNCHANGED <<xhr, reqVars, inSend, inOpen, timeoutInterval, tmoVars, disposed,
                 platform, handles, deferred, exc, logged, cycle, notified, reentry>>
  /\ UNCHANGED others

\* send() returns after its catch.
SendReturns ==
  /\ At("send", "ret")
  /\ stack' = Pop
  /\ UNCHANGED <<ctrlVars, platform, handles, timers, deferred, exc, events, histVars>>
  /\ UNCHANGED others

\* error_ after xhr.abort() returned.
ErrorAfterXhrAbort ==
  /\ At("error_", "xabort")
  /\ inAbort' = FALSE
  /\ errorTail(Top.code, Pop)
  /\ UNCHANGED <<active, xhr, reqVars, inSend, inOpen, timeoutInterval, tmoVars,
                 disposed, platform, handles, deferred, exc, histVars>>
  /\ UNCHANGED others

\* dispatchErrors_: the ERROR event after COMPLETE.
ErrorDispatchError ==
  /\ At("error_", "errors")
  /\ events' = Append(events, Ev("ERROR"))
  /\ stack' = Listeners(Goto("cleanup"), "ERROR")
  /\ UNCHANGED <<ctrlVars, platform, handles, timers, deferred, exc, histVars>>
  /\ UNCHANGED others

\* error_: cleanUpXhr_().
ErrorCleanUp ==
  /\ At("error_", "cleanup")
  /\ cleanUpXhr_(FALSE, Pop)
  /\ UNCHANGED <<active, reqVars, errVars, errorDispatched, guardVars, timeoutInterval,
                 useXhr2Timeout, disposed, platform, deferred, exc, histVars>>
  /\ UNCHANGED others

\* abort(opt_failureCode), called by user code or a listener.
Abort(code) ==
  /\ Caller
  /\ ~disposed
  /\ abort(code, Called("abort"))
  /\ reentry' = ReentryCount
  /\ UNCHANGED <<xhr, reqVars, errVars, errorDispatched, inSend, inOpen,
                 timeoutInterval, tmoVars, disposed, platform, handles, deferred,
                 exc, events, logged, cycle, notified, failures>>
  /\ UNCHANGED others

\* Variant of abort that does not record the error code.
AbortAfterXhrAbortNoCode ==
  /\ At("abort", "xabort")
  /\ inAbort' = FALSE
  /\ events' = Append(events, Ev("COMPLETE"))
  /\ stack' = Listeners(Goto("abort"), "COMPLETE")
  /\ UNCHANGED <<active, xhr, reqVars, errVars, errorDispatched, inSend, inOpen,
                 timeoutInterval, tmoVars, disposed, platform, handles, deferred,
                 exc, histVars>>
  /\ UNCHANGED others

\* abort after xhr.abort() returned: the error code and COMPLETE.
AbortAfterXhrAbort ==
  /\ At("abort", "xabort")
  /\ inAbort' = FALSE
  /\ lastErrorCode' = IF Top.code # "" THEN Top.code ELSE "ABORT"
  /\ events' = Append(events, Ev("COMPLETE"))
  /\ stack' = Listeners(Goto("abort"), "COMPLETE")
  /\ UNCHANGED <<active, xhr, reqVars, lastError, errorDispatched, inSend, inOpen,
                 timeoutInterval, tmoVars, disposed, platform, handles, deferred,
                 exc, histVars>>
  /\ UNCHANGED others

\* abort: the ABORT event.
AbortDispatchAbort ==
  /\ At("abort", "abort")
  /\ events' = Append(events, Ev("ABORT"))
  /\ stack' = Listeners(Goto("cleanup"), "ABORT")
  /\ UNCHANGED <<ctrlVars, platform, handles, timers, deferred, exc, histVars>>
  /\ UNCHANGED others

\* abort: cleanUpXhr_().
AbortCleanUp ==
  /\ At("abort", "cleanup")
  /\ cleanUpXhr_(FALSE, Pop)
  /\ UNCHANGED <<active, reqVars, errVars, errorDispatched, guardVars, timeoutInterval,
                 useXhr2Timeout, disposed, platform, deferred, exc, histVars>>
  /\ UNCHANGED others

\* dispose(): goog.Disposable marks the object disposed and calls
\* disposeInternal, up to its call of xhr.abort() when a request is active.
Dispose ==
  /\ Caller
  /\ ~disposed
  /\ disposed' = TRUE
  /\ reentry' = ReentryCount
  /\ IF xhr # Null /\ active
     THEN /\ active' = FALSE
          /\ inAbort' = TRUE
          /\ stack' = Append(Called("dispose"),
                              Marked(Frame("disposeInternal", "xabort", "", xhr), Len(events)))
          /\ UNCHANGED <<xhr, timeoutId, timers, handles, events>>
     ELSE /\ cleanUpXhr_(TRUE, Called("dispose"))
          /\ UNCHANGED <<active, inAbort>>
  /\ UNCHANGED <<reqVars, errVars, errorDispatched, inSend, inOpen, timeoutInterval,
                 useXhr2Timeout, platform, deferred, exc, logged, cycle, notified, failures>>
  /\ UNCHANGED others

\* disposeInternal after xhr.abort() returned: cleanUpXhr_(true).
DisposeAfterXhrAbort ==
  /\ At("disposeInternal", "xabort")
  /\ inAbort' = FALSE
  /\ cleanUpXhr_(TRUE, Pop)
  /\ UNCHANGED <<active, reqVars, errVars, errorDispatched, inSend, inOpen,
                 timeoutInterval, useXhr2Timeout, disposed, platform, deferred,
                 exc, histVars>>
  /\ UNCHANGED others

\* setTimeoutInterval(ms), between requests or during one.
SetTimeoutInterval(ms) ==
  /\ Idle
  /\ ~disposed
  /\ timeoutInterval' = IF ms > 0 THEN ms ELSE 0
  /\ timeoutInterval' # timeoutInterval
  /\ UNCHANGED <<active, xhr, reqVars, errVars, errorDispatched, guardVars, tmoVars,
                 disposed, platform, handles, deferred, stack, exc, events, histVars>>
  /\ UNCHANGED others

\* Variant of the end of cleanUpXhr_ that takes the callback off this.xhr_,
\* the handle held after READY, instead of the one saved before it.
CleanUpDetachCurrent ==
  /\ At("cleanUpXhr_", "detach")
  /\ handles' = Detach(handles, IF xhr # Null THEN xhr ELSE Top.h)
  /\ stack' = Pop
  /\ UNCHANGED <<ctrlVars, platform, timers, deferred, exc, events, histVars>>
  /\ UNCHANGED others

\* cleanUpXhr_ after READY: the callback is taken off the released handle.
CleanUpDetach ==
  /\ At("cleanUpXhr_", "detach")
  /\ handles' = Detach(handles, Top.h)
  /\ stack' = Pop
  /\ UNCHANGED <<ctrlVars, platform, timers, deferred, exc, events, histVars>>
  /\ UNCHANGED others


\* ---------------------------------------------------- transport and timers

\* The handle's state as the transport leaves it before a notification: the
\* status is reported with complete readiness.
Report(h, rs, st) == [handles EXCEPT ![h].readyState = rs, ![h].status = st]

\* Readiness is a progress indicator: a handle never reports less than before.
Reports(h) ==
  { r \in NotifyReadyStates \X (Statuses \cup ClassifyStatuses) :
      /\ r[1] >= handles[h].readyState
      /\ r[1] = COMPLETE \/ r[2] = 0 }

\* The failure origin a notification is: a terminal one of the cycle's
\* handle with a non-success status (isSuccess on the reported status).
HttpFailure(h, rs, st) ==
  IF /\ h = cycle
     /\ rs = COMPLETE
     /\ ~(HttpStatusIsSuccess(st) \/ (st = 0 /\ ~isLastUriEffectiveSchemeHttp_))
  THEN {"http"} ELSE {}

\* The frame of the call into the transport after a notification inside it:
\* one more, and in send() the point where the request's own handle first
\* reported complete readiness.
InCall(rs) ==
  [stack EXCEPT ![Len(stack)] =
     [Top EXCEPT !.n = @ + 1,
                 !.mark = IF Top.pc = "xsend" /\ rs = COMPLETE /\ Top.h = xhr /\ active
                             /\ @ = -1
                          THEN Len(events) ELSE @]]

\* The transport invokes onreadystatechange synchronously, from inside the
\* controller's call of its open(), send() or abort().
XhrNotifiesInCall(rs, st) ==
  /\ stack # <<>>
  /\ exc = "none"
  /\ Top.pc \in {"open", "xsend", "xabort"}
  /\ handles[Top.h].onreadystatechange = "bound"
  /\ <<rs, st>> \in Reports(Top.h)
  /\ notified < MaxNotify
  /\ notified' = notified + 1
  /\ failures' = failures \cup HttpFailure(Top.h, rs, st)
  /\ onReadyStateChange_(Report(Top.h, rs, st), InCall(rs), deferred, "")
  /\ UNCHANGED <<ctrlVars, platform, timers, logged, cycle, reentry>>
  /\ UNCHANGED others

\* The transport invokes onreadystatechange of handle h asynchronously.
XhrNotifies(h, rs, st) ==
  /\ Idle
  /\ handles[h].onreadystatechange = "bound"
  /\ <<rs, st>> \in Reports(h)
  /\ notified < MaxNotify
  /\ notified' = notified + 1
  /\ failures' = failures \cup HttpFailure(h, rs, st)
  /\ onReadyStateChange_(Report(h, rs, st), stack, deferred, "")
  /\ UNCHANGED <<ctrlVars, platform, timers, logged, cycle, reentry>>
  /\ UNCHANGED others

\* The zero-delay timer of a notification deferred inside send() fires.
DeferredNotificationFires ==
  /\ Idle
  /\ deferred > 0
  /\ onReadyStateChange_(handles, stack, deferred - 1, "deferred")
  /\ UNCHANGED <<ctrlVars, platform, timers, histVars>>
  /\ UNCHANGED others

\* onReadyStateChangeHelper_ after READY_STATE_CHANGE: on complete readiness
\* the request is inactive and COMPLETE is dispatched (by dispatchErrors_
\* for a failure).
HelperAfterReadyStateChange ==
  /\ At("onReadyStateChange_", "rsc")
  /\ IF isComplete(handles)
     THEN /\ active' = FALSE
          /\ IF isSuccess(handles)
             THEN /\ events' = Append(events, Ev("COMPLETE"))
                  /\ stack' = Listeners(Goto("success"), "COMPLETE")
                  /\ UNCHANGED <<errVars, errorDispatched>>
             ELSE /\ lastErrorCode' = "HTTP_ERROR"
                  /\ lastError' = "status"
                  /\ IF ~errorDispatched
                     THEN /\ errorDispatched' = TRUE
                          /\ events' = Append(events, Ev("COMPLETE"))
                          /\ stack' = Listeners(Goto("errors"), "COMPLETE")
                     ELSE /\ stack' = Goto("finally")
                          /\ UNCHANGED <<errorDispatched, events>>
     ELSE /\ stack' = Pop
          /\ UNCHANGED <<active, errVars, errorDispatched, events>>
  /\ UNCHANGED <<xhr, reqVars, guardVars, timeoutInterval, tmoVars, disposed,
                 platform, handles, deferred, exc, histVars>>
  /\ UNCHANGED others

HelperDispatchSuccess ==
  /\ At("onReadyStateChange_", "success")
  /\ events' = Append(events, Ev("SUCCESS"))
  /\ stack' = Listeners(Goto("finally"), "SUCCESS")
  /\ UNCHANGED <<ctrlVars, platform, handles, timers, deferred, exc, histVars>>
  /\ UNCHANGED others

HelperDispatchError ==
  /\ At("onReadyStateChange_", "errors")
  /\ events' = Append(events, Ev("ERROR"))
  /\ stack' = Listeners(Goto("finally"), "ERROR")
  /\ UNCHANGED <<ctrlVars, platform, handles, timers, deferred, exc, histVars>>
  /\ UNCHANGED others

\* the finally of onReadyStateChangeHelper_: cleanUpXhr_().
HelperFinally ==
  /\ At("onReadyStateChange_", "finally")
  /\ cleanUpXhr_(FALSE, Pop)
  /\ UNCHANGED <<active, reqVars, errVars, errorDispatched, guardVars, timeoutInterval,
                 useXhr2Timeout, disposed, platform, deferred, exc, histVars>>
  /\ UNCHANGED others

\* The goog.Timer registration made by send() fires: timeout_().
TimeoutTimerFires(id) ==
  /\ Idle
  /\ id \in timers
  /\ timers' = timers \ {id}
  /\ timeout_(stack)
  /\ UNCHANGED <<active, xhr, reqVars, errorDispatched, guardVars, timeoutInterval,
                 timeoutId, useXhr2Timeout, disposed, platform, handles, deferred,
                 exc, histVars>>
  /\ UNCHANGED others

\* The transport's own timeout fires its ontimeout callback: timeout_().
XhrTimeoutFires(h) ==
  /\ Idle
  /\ handles[h].ontimeout
  /\ handles' = [handles EXCEPT ![h].ontimeout = FALSE]
  /\ timeout_(stack)
  /\ UNCHANGED <<active, xhr, reqVars, errorDispatched, guardVars, timeoutInterval,
                 tmoVars, disposed, platform, deferred, exc, histVars>>
  /\ UNCHANGED others

\* timeout_ after the TIMEOUT event: abort(TIMEOUT).
TimeoutAbort ==
  /\ At("timeout_", "abort")
  /\ abort("TIMEOUT", Pop)
  /\ UNCHANGED <<xhr, reqVars, errVars, errorDispatched, inSend, inOpen,
                 timeoutInterval, tmoVars, disposed, platform, handles, deferred,
                 exc, events, histVars>>
  /\ UNCHANGED others

\* ---------------------------------------------------------------- callers

\* A listener returns to dispatchEvent.
ListenerReturns ==
  /\ stack # <<>>
  /\ exc = "none"
  /\ Top.fn = "listener"
  /\ stack' = Pop
  /\ UNCHANGED <<ctrlVars, platform, handles, timers, deferred, exc, events, histVars>>
  /\ UNCHANGED others

\* The caller of send() has received its exception.
Caught ==
  /\ exc # "none"
  /\ exc' = "none"
  /\ UNCHANGED <<ctrlVars, platform, handles, timers, deferred, stack, events, histVars>>
  /\ UNCHANGED others

Next ==
  \/ \E req \in Requests : Send(req)
  \/ XhrOpenReturns
  \/ XhrOpenThrows
  \/ XhrSendReturns
  \/ XhrSendThrows
  \/ SendReturns
  \/ ErrorAfterXhrAbort
  \/ ErrorDispatchError
  \/ ErrorCleanUp
  \/ \E code \in {"", "OFFLINE"} : Abort(code)
  \/ AbortAfterXhrAbort
  \/ AbortDispatchAbort
  \/ AbortCleanUp
  \/ Dispose
  \/ DisposeAfterXhrAbort
  \/ \E ms \in Intervals : SetTimeoutInterval(ms)
  \/ CleanUpDetach
  \/ \E r \in NotifyReadyStates \X Statuses : XhrNotifiesInCall(r[1], r[2])
  \/ \E h \in 1..MaxSends, r \in NotifyReadyStates \X Statuses : XhrNotifies(h, r[1], r[2])
  \/ DeferredNotificationFires
  \/ HelperAfterReadyStateChange
  \/ HelperDispatchSuccess
  \/ HelperDispatchError
  \/ HelperFinally
  \/ \E id \in 1..MaxSends : TimeoutTimerFires(id)
  \/ \E h \in 1..MaxSends : XhrTimeoutFires(h)
  \/ TimeoutAbort
  \/ ListenerReturns
  \/ Caught

Spec == Init /\ [][Next]_vars

\* ------------------------------------------- a handle whose methods throw
\* An exception leaves every function on the stack up to the listener that
\* made the call, or up to user code or the event loop.
Unwind(stk) ==
  LET ks == {k \in DOMAIN stk : stk[k].fn = "listener"}
  IN IF ks = {} THEN <<>>
     ELSE SubSeq(stk, 1, CHOOSE k \in ks : \A j \in ks : j <= k)

\* xhr.setRequestHeader() throws: send() calls it after open(), outside its
\* two try blocks, so the exception leaves send().
SetRequestHeaderThrows ==
  /\ At("send", "open")
  /\ xhr # Null
  /\ RequestHeaders(Top.req) # <<>>
  /\ inOpen' = FALSE
  /\ exc' = "transport"
  /\ stack' = Unwind(stack)
  /\ UNCHANGED <<active, xhr, reqVars, errVars, errorDispatched, inSend, inAbort,
                 timeoutInterval, tmoVars, disposed, platform, handles, deferred,
                 events, histVars>>
  /\ UNCHANGED others

\* xhr.abort() throws: abort(), error_() and disposeInternal() call it
\* outside any try, with active_ false and inAbort_ set, and nothing after
\* the call runs.
XhrAbortThrows ==
  /\ stack # <<>>
  /\ exc = "none"
  /\ Top.fn \in {"abort", "error_", "disposeInternal"}
  /\ Top.pc = "xabort"
  /\ exc' = "transport"
  /\ stack' = Unwind(stack)
  /\ UNCHANGED <<ctrlVars, platform, handles, timers, deferred, events, histVars>>
  /\ UNCHANGED others

NextThrowing ==
  \/ Next
  \/ SetRequestHeaderThrows
  \/ XhrAbortThrows

ThrowingSpec == Init /\ [][NextThrowing]_vars

\* ------------------------------------------- a factory that fails to create
\* createXhr() throws: send() has reset the fields of the last request and
\* set active_, and holds no handle yet; nothing after the call runs.
CreateXhrThrows(req) ==
  /\ Caller
  /\ ~disposed
  /\ xhr = Null
  /\ lastUri' = req.url
  /\ lastError' = ""
  /\ lastErrorCode' = "NO_ERROR"
  /\ lastMethod' = IF req.method # "" THEN toUpperCase(req.method) ELSE "GET"
  /\ errorDispatched' = FALSE
  /\ active' = TRUE
  /\ exc' = "transport"
  /\ stack' = Called("send")
  /\ reentry' = ReentryCount
  /\ UNCHANGED <<xhr, guardVars, timeoutInterval, tmoVars, disposed, platform,
                 handles, deferred, events, logged, cycle, notified, failures>>
  /\ UNCHANGED others

NextFactory ==
  \/ Next
  \/ \E req \in Requests : CreateXhrThrows(req)

FactorySpec == Init /\ [][NextFactory]_vars

\* ------------------------------------------------ timeout_() called late
\* timeout_() runs without a registration that is due: the method is called
\* itself, or its callback was already queued when it was cancelled.
TimeoutCalled ==
  /\ Idle
  /\ timeout_(stack)
  /\ UNCHANGED <<active, xhr, reqVars, errorDispatched, guardVars, timeoutInterval,
                 tmoVars, disposed, platform, handles, deferred, exc, histVars>>
  /\ UNCHANGED others

NextTimeoutCalled ==
  \/ Next
  \/ TimeoutCalled

TimeoutCalledSpec == Init /\ [][NextTimeoutCalled]_vars

\* ------------------------------------------ a request that never completes
\* The runs in which the transport never reports complete readiness and
\* nobody calls abort() or dispose().
Incomplete == {LOADING, INTERACTIVE}

NextUntilTimeout ==
  \/ \E req \in Requests : Send(req)
  \/ XhrOpenReturns
  \/ XhrOpenThrows
  \/ XhrSendReturns
  \/ XhrSendThrows
  \/ SendReturns
  \/ ErrorAfterXhrAbort
  \/ ErrorDispatchError
  \/ ErrorCleanUp
  \/ AbortAfterXhrAbort
  \/ AbortDispatchAbort
  \/ AbortCleanUp
  \/ \E ms \in Intervals : SetTimeoutInterval(ms)
  \/ CleanUpDetach
  \/ \E rs \in Incomplete : XhrNotifiesInCall(rs, 0)
  \/ \E h \in 1..MaxSends, rs \in Incomplete : XhrNotifies(h, rs, 0)
  \/ HelperAfterReadyStateChange
  \/ \E id \in 1..MaxSends : TimeoutTimerFires(id)
  \/ \E h \in 1..MaxSends : XhrTimeoutFires(h)
  \/ TimeoutAbort
  \/ ListenerReturns
  \/ Caught

\* What happens by itself.  A call of the transport ends, the method or
\* handler that is running takes its next step, a listener and a catch
\* return: JavaScript runs each to completion.  Nothing obliges the user to
\* send or the transport to notify.
Running ==
  \/ XhrOpenReturns
  \/ XhrOpenThrows
  \/ XhrSendReturns
  \/ XhrSendThrows
  \/ SendReturns
  \/ ErrorAfterXhrAbort
  \/ ErrorDispatchError
  \/ ErrorCleanUp
  \/ AbortAfterXhrAbort
  \/ AbortDispatchAbort
  \/ AbortCleanUp
  \/ CleanUpDetach
  \/ HelperAfterReadyStateChange
  \/ TimeoutAbort
  \/ ListenerReturns
  \/ Caught

\* A timeout that is armed fires: the event loop runs a due timer, and the
\* transport its ontimeout, at one of the times the stack is empty, however
\* often other tasks run in between.
TimeoutDue ==
  \/ \E id \in 1..MaxSends : TimeoutTimerFires(id)
  \/ \E h \in 1..MaxSends : XhrTimeoutFires(h)

TimeoutSpec ==
  Init /\ [][NextUntilTimeout]_vars /\ WF_vars(Running) /\ SF_vars(TimeoutDue)

\* ------------------------------------------------- the events of a cycle
\* The events in dispatch order, and those of cycle c.
Dispatched == [i \in DOMAIN events |-> events[i].e]
CycleEvents(c) ==
  LET Of(x) == x.c = c
      es == SelectSeq(events, Of)
  IN [i \in DOMAIN es |-> es[i].e]
Count(c, ev) == Cardinality({i \in DOMAIN CycleEvents(c) : CycleEvents(c)[i] = ev})
Outcomes == {"SUCCESS", "ERROR", "ABORT"}
OutcomeCount(c) == Cardinality({i \in DOMAIN CycleEvents(c) : CycleEvents(c)[i] \in Outcomes})
\* the cycles in the log, and those of them whose handle has been released
Logged == logged..cycle
Released(c) == c < cycle \/ xhr = Null
\* the k events dispatched after the first m
From(m, k) == SubSeq(Dispatched, m + 1, m + k)
\* a frame of cleanUpXhr_ that has released, with READY, the handle its
\* caller held when it dispatched COMPLETE
PathEnd(f) == f.fn = "cleanUpXhr_" /\ f.mark >= 0

C2_AtMostOneOutcome ==
  reentry = 0 => \A c \in Logged : Count(c, "COMPLETE") <= 1 /\ OutcomeCount(c) <= 1

\* the current cycle has met an exception of open or send and an HTTP failure
TwoFailureOrigins == "http" \in failures /\ failures \cap {"open", "send"} # {}

\* C3 as stated: when a cycle has two failure origins, an exception thrown
\* by the transport's open or send and a terminal notification with a
\* non-success status, in either order, it has exactly one ERROR, and that
\* ERROR is immediately preceded by COMPLETE.
C3_OneErrorPair ==
  TwoFailureOrigins =>
    /\ Count(cycle, "ERROR") <= 1
    /\ stack = <<>> => Count(cycle, "ERROR") = 1
    /\ \A i \in DOMAIN CycleEvents(cycle) :
          CycleEvents(cycle)[i] = "ERROR" => i >= 2 /\ CycleEvents(cycle)[i - 1] = "COMPLETE"

\* C4 as stated: in a cycle the READY_STATE_CHANGE events come before
\* COMPLETE, COMPLETE comes before the outcome event, READY is the last
\* event, and TIMEOUT comes before the COMPLETE of its abort.
C4_EventOrder ==
  \A c \in Logged :
    \A i, j \in DOMAIN CycleEvents(c) :
      i < j =>
        /\ CycleEvents(c)[i] # "READY"
        /\ CycleEvents(c)[i] = "COMPLETE" => CycleEvents(c)[j] # "READY_STATE_CHANGE"
        /\ CycleEvents(c)[i] \in Outcomes
             => CycleEvents(c)[j] \notin {"COMPLETE", "TIMEOUT"} \cup Outcomes
        /\ CycleEvents(c)[j] = "TIMEOUT" => CycleEvents(c)[i] # "COMPLETE"

SentWithTimeout(c) ==
  cycle = c /\ stack # <<>> /\ Top.fn = "send" /\ Top.pc = "open" /\ timeoutInterval > 0
TimedOut(c) ==
  LET es == CycleEvents(c) IN
  /\ Len(es) >= 4
  /\ SubSeq(es, Len(es) - 3, Len(es)) = <<"TIMEOUT", "COMPLETE", "ABORT", "READY">>
  /\ lastErrorCode = "TIMEOUT"
  /\ xhr = Null
  /\ ~active
Threw(c) == cycle = c /\ failures \cap {"open", "send"} # {}

\* C6, as amended: if the timeout interval is positive when send() is
\* called, the transport never reports complete readiness, nobody aborts or
\* disposes, and the transport's open and send do not throw, then eventually
\* the cycle has dispatched TIMEOUT, COMPLETE, ABORT, READY as its last four
\* events, the last error code is TIMEOUT and no handle is held.
C6_EventuallyTimesOut ==
  \A c \in 1..MaxSends : SentWithTimeout(c) ~> (TimedOut(c) \/ Threw(c))

\* the transport's own timeout has ended a request that had reported progress
C6_TimedOutByTransport ==
  /\ TimedOut(1)
  /\ useXhr2Timeout
  /\ failures = {}
  /\ Dispatched = <<"READY_STATE_CHANGE", "TIMEOUT", "COMPLETE", "ABORT", "READY">>

\* C6 as stated: the same without the condition on open and send.
C6_TimesOutWhateverOpenDoes ==
  \A c \in 1..MaxSends : SentWithTimeout(c) ~> TimedOut(c)

\* the error code an abort frame records
AbortCode(f) == IF f.code # "" THEN f.code ELSE "ABORT"

\* C7: abort(code) marks the request inactive and calls the transport's
\* abort with the abort guard set, so that a notification delivered inside
\* that call dispatches nothing; it then records the code (ABORT when none is
\* given), dispatches COMPLETE, then ABORT, then releases the handle and the
\* timeout and dispatches READY.
C7_AbortSequence ==
  \A k \in DOMAIN stack :
    LET f == stack[k] IN
    /\ (f.fn = "abort" /\ f.pc = "xabort") =>
          k = Len(stack) /\ ~active /\ inAbort /\ xhr = f.h /\ Len(events) = f.mark
    /\ (f.fn = "abort" /\ f.pc = "abort") =>
          lastErrorCode = AbortCode(f) /\ From(f.mark, 1) = <<"COMPLETE">>
    /\ (f.fn = "abort" /\ f.pc = "cleanup") =>
          lastErrorCode = AbortCode(f) /\ From(f.mark, 2) = <<"COMPLETE", "ABORT">>
    /\ (PathEnd(f) /\ f.code = "abort") =>
          /\ From(f.mark, 3) = <<"COMPLETE", "ABORT", "READY">>
          /\ xhr # f.h
          /\ f.h \notin timers
          /\ ~handles[f.h].ontimeout
          /\ cycle = f.h => (xhr = Null /\ timeoutId = Null /\ ~active)

\* abort(OFFLINE) has run to READY, and the transport notified the
\* controller inside its abort
C7_AbortedWithNotification ==
  /\ stack # <<>>
  /\ PathEnd(Top)
  /\ Top.code = "abort"
  /\ Top.n > 0
  /\ lastErrorCode = "OFFLINE"
  /\ Dispatched = <<"COMPLETE", "ABORT", "READY">>

\* C8: abort() on a controller with no handle, or with a request that is no
\* longer active, returns without dispatching and without changing a field.
C8_AbortWhenInactive ==
  [][((\E code \in {"", "OFFLINE"} : Abort(code)) /\ ~(xhr # Null /\ active))
       => UNCHANGED <<ctrlVars, handles, timers, deferred, events, exc>>]_vars

\* a listener of COMPLETE has called abort() on the request that is ending
C8_AbortedInsideComplete ==
  /\ stack # <<>>
  /\ Top.fn = "listener"
  /\ Top.pc = "abort"
  /\ Top.code = "COMPLETE"
  /\ xhr # Null
  /\ ~active

\* C9: send() on a controller that holds a handle throws, and changes
\* neither a field of the controller, nor the handle, nor the timers, and
\* dispatches nothing.
C9_SendWhileHeld ==
  [][((\E req \in Requests : Send(req)) /\ xhr # Null)
       => /\ exc' = "precondition"
          /\ UNCHANGED <<ctrlVars, handles, timers, deferred, events, cycle>>]_vars

\* send() has thrown on a controller whose request is under way with its
\* timeout armed
C9_SecondSendThrew ==
  /\ exc = "precondition"
  /\ stack = <<>>
  /\ active
  /\ xhr # Null
  /\ timeoutId # Null

\* C10: dispose() dispatches no event, READY included.  With a request
\* active it marks it inactive and calls the transport's abort with the
\* abort guard set; in every case it ends with no handle and no timeout.
C10_DisposeIsSilent ==
  /\ [][(Dispose \/ DisposeAfterXhrAbort) => events' = events]_vars
  /\ [](\A k \in DOMAIN stack :
          stack[k].fn = "disposeInternal" =>
            k = Len(stack) /\ disposed /\ ~active /\ inAbort /\ Len(events) = stack[k].mark)
  /\ []((disposed /\ \A k \in DOMAIN stack : stack[k].fn # "disposeInternal") =>
          /\ xhr = Null
          /\ timeoutId = Null
          /\ timers = {}
          /\ \A h \in DOMAIN handles : ~handles[h].ontimeout)

\* an active request with its timeout armed has been disposed of, with a
\* notification inside the transport's abort
C10_DisposedActiveRequest ==
  /\ disposed
  /\ stack = <<>>
  /\ cycle = 1
  /\ timeoutInterval > 0
  /\ notified > 0
  /\ deferred = 0
  /\ ~platform.localRequestError
  /\ handles[1].onreadystatechange # "bound"
  /\ events = <<>>

\* C11: whenever READY is dispatched the controller holds no handle, so a
\* READY listener that calls send() at once is accepted (no precondition
\* error) and starts a new cycle with a fresh handle; the end of
\* cleanUpXhr_, which then takes the callback off the old handle, leaves the
\* new handle, the timers and the timeout id as they are.
C11_ReadyListenerMaySend ==
  /\ [][(Len(events') = Len(events) + 1 /\ events'[Len(events')].e = "READY")
          => (xhr' = Null /\ timeoutId' = Null)]_vars
  /\ [][((\E req \in Requests : Send(req)) /\ stack # <<>> /\ Top.code = "READY")
          => /\ exc' = "none"
             /\ cycle' = cycle + 1
             /\ xhr' = cycle' /\ active'
             /\ handles[xhr'].onreadystatechange = "null"
             /\ handles'[xhr'].onreadystatechange = "bound"]_vars
  /\ [][CleanUpDetach
          => /\ Top.h # xhr
             /\ \A h \in DOMAIN handles : h # Top.h => handles'[h] = handles[h]
             /\ UNCHANGED <<xhr, active, timers, timeoutId>>]_vars

\* the release of handle 1 is about to finish while request 2, sent by the
\* READY listener, is under way with its timeout armed
C11_OldReleaseDuringNewRequest ==
  /\ stack # <<>>
  /\ Top.fn = "cleanUpXhr_"
  /\ Top.h = 1
  /\ xhr = 2
  /\ active
  /\ timeoutId = 2
  /\ 2 \in timers
  /\ handles[2].onreadystatechange = "bound"

\* C12 as stated: no exception of the transport handle leaves send(),
\* abort() or dispose(); the only exception a caller receives is the
\* precondition error of send().
C12_OnlyPreconditionError == exc \in {"none", "precondition"}

\* ------------------------------------------------ the request's headers
\* User code puts a header into the public map: xhrIo.headers.set(key, value)
SetHeader(key, value) ==
  /\ Idle
  /\ ~disposed
  /\ headers' = MapSet(headers, key, value)
  /\ UNCHANGED <<ctrlVars, platform, handles, timers, deferred, stack, exc, events,
                 histVars, sentHeaders, ret, static, className, called>>

\* Requests of every method, with and without opt_headers and content, on a
\* controller whose public map user code fills.
NextHeaders ==
  \/ \E e \in BaseHeaders : SetHeader(e[1], e[2])
  \/ \E req \in HeaderRequests : Send(req)
  \/ XhrOpenReturns
  \/ XhrSendReturns
  \/ Caught

HeaderSpec == Init /\ [][NextHeaders]_vars

\* ------------------------------------------------ the response accessors
Accessors ==
  {"getReadyState", "getStatus", "getStatusText", "getResponseText", "getResponseXml",
   "getResponseJson", "getResponse", "getResponseHeader", "getAllResponseHeaders",
   "getResponseHeaders"}

\* What the accessor fn returns, or "exception" when one leaves it, with
\* throws telling whether the handle throws when a property of it is read or
\* a method of it called.  A value read from the handle is named after the
\* property; getResponseJson and getResponseHeaders return what they make of it.
ResponseAccessor(fn, throws) ==
  LET complete == handles[xhr].readyState = COMPLETE
      loaded == handles[xhr].readyState > LOADED
  IN CASE fn = "getReadyState" ->
            IF xhr = Null THEN "UNINITIALIZED"
            ELSE IF throws THEN "exception" ELSE "xhr.readyState"
       [] fn = "getStatus" ->          \* try ... catch: -1
            IF xhr = Null \/ throws THEN "-1"
            ELSE IF loaded THEN "xhr.status" ELSE "-1"
       [] fn = "getStatusText" ->      \* try ... catch: ''
            IF xhr = Null \/ throws THEN "''"
            ELSE IF loaded THEN "xhr.statusText" ELSE "''"
       [] fn = "getResponseText" ->    \* try ... catch: ''
            IF xhr = Null \/ throws THEN "''" ELSE "xhr.responseText"
       [] fn = "getResponseXml" ->     \* try ... catch: null
            IF xhr = Null \/ throws THEN "null" ELSE "xhr.responseXML"
       [] fn = "getResponseJson" ->    \* no try
            IF xhr = Null THEN "undefined"
            ELSE IF throws THEN "exception" ELSE "goog.json.parse(xhr.responseText)"
       [] fn = "getResponse" ->        \* try ... catch: null
            IF xhr = Null \/ throws THEN "null" ELSE "xhr.response"
       [] fn = "getResponseHeader" ->  \* no try; isComplete() reads readyState
            IF xhr = Null THEN "undefined"
            ELSE IF throws THEN "exception"
            ELSE IF complete THEN "xhr.getResponseHeader(key)" ELSE "undefined"
       [] fn = "getAllResponseHeaders" ->
            IF xhr = Null THEN "''"
            ELSE IF throws THEN "exception"
            ELSE IF complete THEN "xhr.getAllResponseHeaders()" ELSE "''"
       [] fn = "getResponseHeaders" -> \* the lines of getAllResponseHeaders()
            IF xhr = Null THEN "{}"
            ELSE IF throws THEN "exception"
            ELSE IF complete THEN "{key: value}" ELSE "{}"

\* User code or a listener calls a response accessor.
Get(fn, throws) ==
  /\ Caller
  /\ xhr = Null => ~throws
  /\ ret' = [fn |-> fn, value |-> ResponseAccessor(fn, throws), handle |-> xhr # Null,
             throws |-> throws]
  /\ exc' = IF ResponseAccessor(fn, throws) = "exception" THEN "transport" ELSE exc
  /\ UNCHANGED <<ctrlVars, platform, handles, timers, deferred, stack, events,
                 histVars, headers, sentHeaders, static, className, called>>

\* Requests that run to their end, with accessors called at any time by user
\* code and by listeners.
NextAccessors ==
  \/ \E fn \in Accessors, throws \in BOOLEAN : Get(fn, throws)
  \/ \E req \in Requests : Send(req)
  \/ XhrOpenReturns
  \/ XhrSendReturns
  \/ \E h \in 1..MaxSends, r \in NotifyReadyStates \X Statuses : XhrNotifies(h, r[1], r[2])
  \/ HelperAfterReadyStateChange
  \/ HelperDispatchSuccess
  \/ HelperDispatchError
  \/ HelperFinally
  \/ CleanUpDetach
  \/ ListenerReturns
  \/ Caught

AccessorSpec == Init /\ [][NextAccessors]_vars

\* ------------------------------------------ the static send and cleanup
\* goog.array.remove
Remove(seq, x) == SelectSeq(seq, LAMBDA y : y # x)

\* goog.net.XhrIo.send(url, opt_callback, opt_method, ..., opt_timeoutInterval):
\* a new controller, tracked, with the callback listening to COMPLETE and
\* cleanupSend_ to READY, its timeout interval, and its send() up to the
\* call of xhr.open().
StaticSend(req, ms) ==
  /\ Idle
  /\ cycle = 0 /\ xhr = Null /\ ~disposed /\ sendInstances = <<>> /\ callbacks = 0
  /\ sendInstances' = Append(sendInstances, 1)
  /\ timeoutInterval' = IF ms = 0 THEN timeoutInterval ELSE IF ms > 0 THEN ms ELSE 0
  /\ sentHeaders' = <<>>
  /\ lastUri' = req.url
  /\ lastError' = ""
  /\ lastErrorCode' = "NO_ERROR"
  /\ lastMethod' = IF req.method # "" THEN toUpperCase(req.method) ELSE "GET"
  /\ errorDispatched' = FALSE
  /\ active' = TRUE
  /\ xhr' = cycle + 1
  /\ handles' = [handles EXCEPT ![cycle + 1].onreadystatechange = "bound"]
  /\ inOpen' = TRUE
  /\ stack' = <<[Frame("send", "open", "", cycle + 1) EXCEPT !.req = req]>>
  /\ cycle' = cycle + 1
  /\ failures' = {}
  /\ events' = <<>>
  /\ logged' = cycle + 1
  /\ UNCHANGED <<inSend, inAbort, tmoVars, disposed, platform, deferred, exc, notified,
                 reentry, headers, ret, peer, callbacks, tracked, className, called>>

\* The static send() for another request; its controller is tracked too.
PeerSend(timer) ==
  /\ Idle
  /\ ~peer.active /\ ~peer.disposed
  /\ peer' = [active |-> TRUE, timer |-> timer, disposed |-> FALSE]
  /\ sendInstances' = Append(sendInstances, 2)
  /\ UNCHANGED <<ctrlVars, platform, handles, timers, deferred, stack, exc, events,
                 histVars, headers, sentHeaders, ret, callbacks, tracked, className, called>>

\* The other request ends: on READY its cleanupSend_ disposes its controller
\* and removes it from the registry.
PeerReady ==
  /\ Idle
  /\ peer.active
  /\ peer' = [active |-> FALSE, timer |-> FALSE, disposed |-> TRUE]
  /\ sendInstances' = Remove(sendInstances, 2)
  /\ UNCHANGED <<ctrlVars, platform, handles, timers, deferred, stack, exc, events,
                 histVars, headers, sentHeaders, ret, callbacks, tracked, className, called>>

\* The caller's callback, listening to COMPLETE, returns.
CallbackReturns ==
  /\ stack # <<>> /\ exc = "none"
  /\ Top.fn = "listener" /\ Top.code = "COMPLETE"
  /\ callbacks' = callbacks + 1
  /\ stack' = Pop
  /\ UNCHANGED <<ctrlVars, platform, handles, timers, deferred, exc, events,
                 histVars, headers, sentHeaders, ret, sendInstances, peer, tracked,
                 className, called>>

\* cleanupSend_, listening to READY: this.dispose(), up to the call of
\* xhr.abort() when a request is active.
CleanupSend ==
  /\ At("listener", "fresh") /\ Top.code = "READY"
  /\ disposed' = TRUE
  /\ IF disposed
     THEN /\ stack' = Goto("remove")
          /\ UNCHANGED <<active, inAbort, xhr, timeoutId, timers, handles, events>>
     ELSE IF xhr # Null /\ active
     THEN /\ active' = FALSE
          /\ inAbort' = TRUE
          /\ stack' = Append(Goto("remove"),
                              Marked(Frame("disposeInternal", "xabort", "", xhr), Len(events)))
          /\ UNCHANGED <<xhr, timeoutId, timers, handles, events>>
     ELSE /\ cleanUpXhr_(TRUE, Goto("remove"))
          /\ UNCHANGED <<active, inAbort>>
  /\ UNCHANGED <<reqVars, errVars, errorDispatched, inSend, inOpen, timeoutInterval,
                 useXhr2Timeout, platform, deferred, exc, histVars>>
  /\ UNCHANGED others

\* Variant of cleanupSend_ that leaves the controller in the registry.
CleanupSendKeeps ==
  /\ At("listener", "remove")
  /\ stack' = Pop
  /\ UNCHANGED <<ctrlVars, platform, handles, timers, deferred, exc, events, histVars>>
  /\ UNCHANGED others

\* cleanupSend_: goog.array.remove(sendInstances_, this)
CleanupSendRemoves ==
  /\ At("listener", "remove")
  /\ sendInstances' = Remove(sendInstances, 1)
  /\ stack' = Pop
  /\ UNCHANGED <<ctrlVars, platform, handles, timers, deferred, exc, events,
                 histVars, headers, sentHeaders, ret, peer, callbacks, tracked,
                 className, called>>

\* A listener of an event the static send() listens to with nothing.
NoListener ==
  /\ ListenerReturns
  /\ Top.code \notin {"COMPLETE", "READY"}

\* goog.net.XhrIo.cleanup(), called by user code or by a callback.
Cleanup ==
  /\ Caller
  /\ stack # <<>> => Top.code = "COMPLETE"
  /\ tracked' = {sendInstances[i] : i \in DOMAIN sendInstances}
  /\ stack' = Append(Called("cleanup"), Frame("cleanup", "loop", "", Null))
  /\ reentry' = ReentryCount
  /\ UNCHANGED <<ctrlVars, platform, handles, timers, deferred, exc, events, logged,
                 cycle, notified, failures, headers, sentHeaders, ret, sendInstances,
                 peer, callbacks, className, called>>

\* Variant of cleanup that disposes of one controller only.
CleanupOnce ==
  /\ At("cleanup", "loop")
  /\ stack' = Pop
  /\ IF sendInstances = <<>>
     THEN UNCHANGED <<sendInstances, peer>>
     ELSE /\ sendInstances' = SubSeq(sendInstances, 1, Len(sendInstances) - 1)
          /\ peer' = [active |-> FALSE, timer |-> FALSE, disposed |-> TRUE]
  /\ UNCHANGED <<ctrlVars, platform, handles, timers, deferred, exc, events,
                 histVars, headers, sentHeaders, ret, callbacks, tracked, className, called>>

\* cleanup: while (instances.length) instances.pop().dispose(), one turn of
\* the loop, up to the call of xhr.abort() when the controller has a request
\* active; cleanup returns when the registry is empty.
CleanupLoop ==
  /\ At("cleanup", "loop")
  /\ IF sendInstances = <<>>
     THEN /\ stack' = Pop
          /\ UNCHANGED <<sendInstances, peer, disposed, active, inAbort, xhr, timeoutId,
                         timers, handles, events>>
     ELSE /\ sendInstances' = SubSeq(sendInstances, 1, Len(sendInstances) - 1)
          /\ IF sendInstances[Len(sendInstances)] = 2
             THEN /\ peer' = [active |-> FALSE, timer |-> FALSE, disposed |-> TRUE]
                  /\ UNCHANGED <<stack, disposed, active, inAbort, xhr, timeoutId,
                                 timers, handles, events>>
             ELSE /\ disposed' = TRUE
                  /\ UNCHANGED peer
                  /\ IF disposed
                     THEN UNCHANGED <<stack, active, inAbort, xhr, timeoutId, timers,
                                      handles, events>>
                     ELSE IF xhr # Null /\ active
                     THEN /\ active' = FALSE
                          /\ inAbort' = TRUE
                          /\ stack' = Append(stack, Marked(Frame("disposeInternal", "xabort",
                                                                 "", xhr), Len(events)))
                          /\ UNCHANGED <<xhr, timeoutId, timers, handles, events>>
                     ELSE /\ cleanUpXhr_(TRUE, stack)
                          /\ UNCHANGED <<active, inAbort>>
  /\ UNCHANGED <<reqVars, errVars, errorDispatched, inSend, inOpen, timeoutInterval,
                 useXhr2Timeout, platform, deferred, exc, histVars, headers,
                 sentHeaders, ret, callbacks, tracked, className, called>>

NextStatic ==
  \/ \E req \in Requests, ms \in Intervals : StaticSend(req, ms)
  \/ \E timer \in BOOLEAN : PeerSend(timer)
  \/ PeerReady
  \/ CallbackReturns
  \/ CleanupSend
  \/ CleanupSendRemoves
  \/ NoListener
  \/ Cleanup
  \/ CleanupLoop
  \/ XhrOpenReturns
  \/ XhrOpenThrows
  \/ XhrSendReturns
  \/ XhrSendThrows
  \/ SendReturns
  \/ ErrorAfterXhrAbort
  \/ ErrorDispatchError
  \/ ErrorCleanUp
  \/ AbortAfterXhrAbort
  \/ AbortDispatchAbort
  \/ AbortCleanUp
  \/ DisposeAfterXhrAbort
  \/ CleanUpDetach
  \/ \E r \in NotifyReadyStates \X Statuses : XhrNotifiesInCall(r[1], r[2])
  \/ \E h \in 1..MaxSends, r \in NotifyReadyStates \X Statuses : XhrNotifies(h, r[1], r[2])
  \/ DeferredNotificationFires
  \/ HelperAfterReadyStateChange
  \/ HelperDispatchSuccess
  \/ HelperDispatchError
  \/ HelperFinally
  \/ \E id \in 1..MaxSends : TimeoutTimerFires(id)
  \/ \E h \in 1..MaxSends : XhrTimeoutFires(h)
  \/ TimeoutAbort
  \/ Caught

StaticSpec == Init /\ [][NextStatic]_vars

\* The caller's callback disposes of the controller the COMPLETE event came
\* from (e.target.dispose()).
CallbackDisposes ==
  /\ stack # <<>> /\ Top.code = "COMPLETE"
  /\ Dispose

NextStaticDispose ==
  \/ NextStatic
  \/ CallbackDisposes

StaticDisposeSpec == Init /\ [][NextStaticDispose]_vars

\* -------------------------------------------------------- goog.dom.classes
\* The characters of a class string, the longest class string user code
\* sets, and the class names and argument lists it passes.
Chars == {"a", "b", " "}
MaxClassNameLen == 4
MaxArgs == 2
RECURSIVE Strings(_)
Strings(n) ==
  IF n = 0 THEN {<<>>}
  ELSE Strings(n - 1) \cup {Append(str, c) : str \in Strings(n - 1), c \in Chars}
ClassNames == {<<"a">>, <<"b">>, <<"a", "b">>}
ArgLists == UNION {[1..n -> ClassNames] : n \in 1..MaxArgs}

\* className.match(/\S+/g) || []: the runs of characters other than white
\* space, in order.
RECURSIVE get(_)
get(str) ==
  IF str = <<>> THEN <<>>
  ELSE IF str[1] = " " THEN get(Tail(str))
  ELSE LET spaces == {i \in DOMAIN str : str[i] = " "}
           end == IF spaces = {} THEN Len(str)
                  ELSE (CHOOSE i \in spaces : \A j \in spaces : i <= j) - 1
       IN <<SubSeq(str, 1, end)>> \o get(SubSeq(str, end + 1, Len(str)))

\* classes.join(' ')
RECURSIVE join(_)
join(classes) ==
  IF classes = <<>> THEN <<>>
  ELSE IF Len(classes) = 1 THEN classes[1]
  ELSE classes[1] \o <<" ">> \o join(Tail(classes))

\* goog.array.contains
contains(arr, obj) == \E i \in DOMAIN arr : arr[i] = obj

\* goog.dom.classes.add_: pushes the args that classes does not contain.
RECURSIVE add_(_, _)
add_(classes, args) ==
  IF args = <<>> THEN classes
  ELSE add_(IF contains(classes, args[1]) THEN classes ELSE Append(classes, args[1]),
            Tail(args))

\* goog.dom.classes.set(element, className)
ClassesSet(str) ==
  /\ className' = str
  /\ called' = [fn |-> "set", args |-> <<str>>, before |-> <<>>, value |-> FALSE]
  /\ UNCHANGED <<ctrlVars, platform, handles, timers, deferred, stack, exc, events,
                 histVars, headers, sentHeaders, ret, static>>

\* goog.dom.classes.add(element, var_args)
ClassesAdd(args) ==
  LET classes == get(className)
      expectedCount == Len(classes) + Len(args)
      added == add_(classes, args)
  IN /\ className' = join(added)
     /\ called' = [fn |-> "add", args |-> args, before |-> className,
                   value |-> Len(added) = expectedCount]
     /\ UNCHANGED <<ctrlVars, platform, handles, timers, deferred, stack, exc, events,
                    histVars, headers, sentHeaders, ret, static>>

\* goog.dom.classes.getDifference_: the items of arr1 that arr2 does not
\* contain.
getDifference_(arr1, arr2) == SelectSeq(arr1, LAMBDA item : ~contains(arr2, item))

\* goog.dom.classes.remove(element, var_args)
ClassesRemove(args) ==
  LET classes == get(className)
      newClasses == getDifference_(classes, args)
  IN /\ className' = join(newClasses)
     /\ called' = [fn |-> "remove", args |-> args, before |-> className,
                   value |-> Len(newClasses) = Len(classes) - Len(args)]
     /\ UNCHANGED <<ctrlVars, platform, handles, timers, deferred, stack, exc, events,
                    histVars, headers, sentHeaders, ret, static>>

NextClasses ==
  \/ \E str \in Strings(MaxClassNameLen) : ClassesSet(str)
  \/ \E args \in ArgLists : ClassesAdd(args)
  \/ \E args \in ArgLists : ClassesRemove(args)

\* The class utility does not depend on the platform of the transport.
InitClasses ==
  /\ Init
  /\ ~platform.localRequestError /\ ~platform.xhr2Timeout /\ ~platform.detachThrows

ClassesSpec == InitClasses /\ [][NextClasses]_vars

\* ------------------------------------------ the other class operations
\* The most classes a class string holds in the runs explored.
MaxClasses == 3

\* goog.array.remove: takes out the first occurrence of obj
RemoveFirst(arr, obj) ==
  LET at == {i \in DOMAIN arr : arr[i] = obj}
  IN IF at = {} THEN arr
     ELSE LET i == CHOOSE k \in at : \A j \in at : k <= j
          IN SubSeq(arr, 1, i - 1) \o SubSeq(arr, i + 1, Len(arr))

\* goog.dom.classes.swap(element, fromClass, toClass): every fromClass is
\* spliced out, and if there was one, toClass is pushed and the string set.
ClassesSwap(fromClass, toClass) ==
  LET classes == get(className)
      removed == contains(classes, fromClass)
      spliced == SelectSeq(classes, LAMBDA c : c # fromClass)
  IN /\ className' = IF removed THEN join(Append(spliced, toClass)) ELSE className
     /\ called' = [fn |-> "swap", args |-> <<fromClass, toClass>>, before |-> className,
                   value |-> removed]
     /\ UNCHANGED <<ctrlVars, platform, handles, timers, deferred, stack, exc, events,
                    histVars, headers, sentHeaders, ret, static>>

\* The kinds of argument addRemove tells apart: null, a string, an array.
AddRemoveArgs ==
  {[kind |-> "null", v |-> <<>>]}
    \cup {[kind |-> "string", v |-> <<c>>] : c \in ClassNames}
    \cup {[kind |-> "array", v |-> a] : a \in ArgLists}

\* goog.dom.classes.addRemove(element, classesToRemove, classesToAdd)
ClassesAddRemove(classesToRemove, classesToAdd) ==
  LET classes == get(className)
      kept == IF classesToRemove.kind = "string"
              THEN RemoveFirst(classes, classesToRemove.v[1])
              ELSE IF classesToRemove.kind = "array"
              THEN getDifference_(classes, classesToRemove.v)
              ELSE classes
      added == IF classesToAdd.kind = "string" /\ ~contains(kept, classesToAdd.v[1])
               THEN Append(kept, classesToAdd.v[1])
               ELSE IF classesToAdd.kind = "array"
               THEN add_(kept, classesToAdd.v)
               ELSE kept
  IN /\ className' = join(added)
     /\ called' = [fn |-> "addRemove", args |-> classesToRemove.v \o classesToAdd.v,
                   before |-> className, value |-> FALSE]
     /\ UNCHANGED <<ctrlVars, platform, handles, timers, deferred, stack, exc, events,
                    histVars, headers, sentHeaders, ret, static>>

\* goog.dom.classes.has
has(name) == contains(get(className), name)

\* goog.dom.classes.enable(element, className, enabled): add or remove
ClassesEnable(name, enabled) ==
  /\ className' = IF enabled THEN join(add_(get(className), <<name>>))
                  ELSE join(getDifference_(get(className), <<name>>))
  /\ called' = [fn |-> "enable", args |-> <<name>>, before |-> className,
                value |-> enabled]
  /\ UNCHANGED <<ctrlVars, platform, handles, timers, deferred, stack, exc, events,
                 histVars, headers, sentHeaders, ret, static>>

\* goog.dom.classes.toggle(element, className): enable with !has; returns it
ClassesToggle(name) ==
  LET add == ~has(name)
  IN /\ className' = IF add THEN join(add_(get(className), <<name>>))
                     ELSE join(getDifference_(get(className), <<name>>))
     /\ called' = [fn |-> "toggle", args |-> <<name>>, before |-> className,
                   value |-> add]
     /\ UNCHANGED <<ctrlVars, platform, handles, timers, deferred, stack, exc, events,
                    histVars, headers, sentHeaders, ret, static>>

\* the class string after the step holds at most MaxClasses classes
Capped == Len(get(className')) <= MaxClasses

\* The operations that change classes one by one, on an element that starts
\* without classes.
NextClassList ==
  \/ \E args \in ArgLists : ClassesAdd(args) /\ Capped
  \/ \E args \in ArgLists : ClassesRemove(args) /\ Capped
  \/ \E from \in ClassNames, to \in ClassNames : ClassesSwap(from, to) /\ Capped
  \/ \E r \in AddRemoveArgs, a \in AddRemoveArgs : ClassesAddRemove(r, a) /\ Capped
  \/ \E name \in ClassNames, enabled \in BOOLEAN : ClassesEnable(name, enabled) /\ Capped
  \/ \E name \in ClassNames : ClassesToggle(name) /\ Capped

ClassListSpec == InitClasses /\ [][NextClassList]_vars

\* ------------------------------------ the classification of the status
\* Requests to targets of every scheme, answered by one terminal notification
\* of every status; listeners may send again.
NextClassify ==
  \/ \E req \in ClassifyRequests : Send(req)
  \/ XhrOpenReturns
  \/ XhrSendReturns
  \/ \E h \in 1..MaxSends, st \in ClassifyStatuses : XhrNotifies(h, COMPLETE, st)
  \/ HelperAfterReadyStateChange
  \/ HelperDispatchSuccess
  \/ HelperDispatchError
  \/ HelperFinally
  \/ CleanUpDetach
  \/ ListenerReturns
  \/ Caught

ClassifySpec == Init /\ [][NextClassify]_vars

\* the step dispatches the event e
NewEvent(e) == Len(events') = Len(events) + 1 /\ events'[Len(events')].e = e

\* C13 as stated: an accepted send() resets the last error code to NO_ERROR
\* and the last error message to empty, and the last error code at the
\* dispatch of an outcome event classifies it: NO_ERROR at SUCCESS,
\* HTTP_ERROR at the ERROR of a terminal notification, EXCEPTION at the ERROR
\* of error_ (open or send threw), ABORT at the ABORT of abort() without a
\* code, TIMEOUT at TIMEOUT and at the ABORT of the abort(TIMEOUT) after it.
C13_ErrorCodeClassifies ==
  /\ [][cycle' = cycle + 1 => (lastErrorCode' = "NO_ERROR" /\ lastError' = "")]_vars
  /\ [][NewEvent("SUCCESS") => lastErrorCode' = "NO_ERROR"]_vars
  /\ [][(NewEvent("ERROR") /\ Top.fn = "onReadyStateChange_")
          => lastErrorCode' = "HTTP_ERROR"]_vars
  /\ [][(NewEvent("ERROR") /\ Top.fn = "error_") => lastErrorCode' = "EXCEPTION"]_vars
  /\ [][(NewEvent("ABORT") /\ Top.code = "") => lastErrorCode' = "ABORT"]_vars
  /\ [][(NewEvent("ABORT") /\ Top.code = "TIMEOUT") => lastErrorCode' = "TIMEOUT"]_vars
  /\ [][NewEvent("TIMEOUT") => lastErrorCode' = "TIMEOUT"]_vars

\* the last url requested names an http or https target, in any case
C14_HttpTarget == lastUri \in {"http://x/y", "HTTPS://x/y", "Http://x/y"}

\* C14: at terminal readiness a status of 200 or 304 is classified as
\* success (COMPLETE, then SUCCESS); a status of 0 is classified as success
\* if and only if the scheme of the last url requested is neither http nor
\* https, whatever its case; a status of 0 on an http or https target is a
\* failure: the error code becomes HTTP_ERROR and ERROR is dispatched with it.
C14_StatusClassification ==
  /\ [][(HelperAfterReadyStateChange /\ isComplete(handles))
          => LET st == handles[xhr].status
                 pc == stack'[Len(stack)].pc
             IN /\ st \in {200, 304} => (pc = "success" /\ NewEvent("COMPLETE"))
                /\ st = 0 => (pc = "success" <=> ~C14_HttpTarget)
                /\ (st = 0 /\ C14_HttpTarget)
                     => (pc = "errors" /\ lastErrorCode' = "HTTP_ERROR")]_vars
  /\ [][HelperDispatchSuccess => NewEvent("SUCCESS")]_vars
  /\ [][HelperDispatchError
          => (NewEvent("ERROR") /\ lastErrorCode' = "HTTP_ERROR")]_vars

\* a status of 0 on a target whose scheme is written HTTPS ended in ERROR
C14_UpperCaseSchemeFailed ==
  /\ cycle = 1
  /\ lastUri = "HTTPS://x/y"
  /\ handles[1].status = 0
  /\ Dispatched = <<"READY_STATE_CHANGE", "COMPLETE", "ERROR", "READY">>
  /\ lastErrorCode = "HTTP_ERROR"

\* the header names in use, the entries of a name in a sequence of
\* <<name, value>> pairs, and the value of its first entry
HeaderNames == {"X-A", "X-B", "X-C", "Content-Type", "content-type", "CONTENT-TYPE"}
Entries(m, name) == {i \in DOMAIN m : m[i][1] = name}
ValueOf(m, name) == m[CHOOSE i \in Entries(m, name) : TRUE][2]
SentOnce(name, value) ==
  Cardinality(Entries(sentHeaders', name)) = 1 /\ ValueOf(sentHeaders', name) = value
Pairs(m) == {m[i] : i \in DOMAIN m}

\* C15: of the headers send() passes to the transport, a name that is both in
\* the controller's map and in opt_headers is passed exactly once, with the
\* value of opt_headers; a name only in the map is passed with the map's
\* value, a name only in opt_headers with that of opt_headers.
C15_HeaderMerge ==
  [][(XhrOpenReturns /\ xhr # Null)
      => \A name \in HeaderNames :
           LET base == Entries(headers, name) # {}
               override == Entries(Top.req.headers, name) # {}
           IN /\ (base /\ override) => SentOnce(name, ValueOf(Top.req.headers, name))
              /\ (base /\ ~override) => SentOnce(name, ValueOf(headers, name))
              /\ (~base /\ override) => SentOnce(name, ValueOf(Top.req.headers, name))]_vars

\* X-A of the map was overridden, X-C was not, X-B came with the call
C15_OverriddenHeaderSent ==
  /\ headers = << <<"X-A", "1">>, <<"X-C", "1">> >>
  /\ sentHeaders = << <<"X-A", "2">>, <<"X-C", "1">>, <<"X-B", "3">> >>

\* C16: send() passes Content-Type:
\* application/x-www-form-urlencoded;charset=utf-8 of its own if and only if
\* the method, upper-cased, is POST or PUT, no name in the map or in
\* opt_headers equals Content-Type ignoring case, and the content is not a
\* FormData; apart from that header the transport receives the caller's
\* headers, none added or replaced.
C16_FormContentType ==
  [][(XhrOpenReturns /\ xhr # Null)
      => LET req == Top.req
             names == {e[1] : e \in Pairs(headers) \cup Pairs(req.headers)}
             own == /\ req.method \in {"post", "Put"}
                    /\ names \cap {"Content-Type", "content-type", "CONTENT-TYPE"} = {}
                    /\ req.content # "FormData"
             form == <<"Content-Type", "application/x-www-form-urlencoded;charset=utf-8">>
             given == Pairs(req.headers)
                        \cup {e \in Pairs(headers) : Entries(req.headers, e[1]) = {}}
         IN /\ own <=> form \in Pairs(sentHeaders')
            /\ Pairs(sentHeaders') \ {form} = given
            /\ Len(sentHeaders') = Cardinality(Pairs(sentHeaders'))]_vars

\* a PUT with a header of the map and none of its own got the form type
C16_FormTypeAdded ==
  /\ lastMethod = "PUT"
  /\ sentHeaders = << <<"X-A", "1">>,
                      <<"Content-Type", "application/x-www-form-urlencoded;charset=utf-8">> >>

\* what an accessor returns when it has nothing to return
NeutralDefault(fn) ==
  CASE fn = "getReadyState" -> "UNINITIALIZED"
    [] fn = "getStatus" -> "-1"
    [] fn \in {"getStatusText", "getResponseText", "getAllResponseHeaders"} -> "''"
    [] fn \in {"getResponseXml", "getResponse"} -> "null"
    [] fn \in {"getResponseJson", "getResponseHeader"} -> "undefined"
    [] fn = "getResponseHeaders" -> "{}"
    [] OTHER -> ""

\* C17 as stated: a response accessor called while the controller holds no
\* handle, or while the handle throws on being queried, returns its neutral
\* default, and no exception leaves it.
C17_AccessorsNeverThrow ==
  (ret.fn # "" /\ (~ret.handle \/ ret.throws)) => ret.value = NeutralDefault(ret.fn)

\* a listener of the event ev has been called and has not returned
Pending(ev) == \E i \in DOMAIN stack : stack[i].fn = "listener" /\ stack[i].code = ev
\* the controller of the static send() is in the registry
Tracked == \E i \in DOMAIN sendInstances : sendInstances[i] = 1

\* C18: for the request of a static send(), once COMPLETE has been
\* dispatched the caller's callback has been called, and never more often
\* than COMPLETE was dispatched; once READY has been dispatched and its
\* listener has returned, the controller is disposed and no longer in the
\* registry.  On every path: success, HTTP error, exception, timeout.
C18_StaticSendCallbackAndCleanup ==
  /\ Count(1, "COMPLETE") >= 1 => (callbacks >= 1 \/ Pending("COMPLETE"))
  /\ callbacks <= Count(1, "COMPLETE")
  /\ Count(1, "READY") >= 1 => (Pending("READY") \/ (disposed /\ ~Tracked))
  /\ Count(1, "READY") <= 1

\* the request of a static send() timed out and its controller is gone
C18_TimedOutAndCleanedUp ==
  /\ Dispatched = <<"TIMEOUT", "COMPLETE", "ABORT", "READY">>
  /\ stack = <<>>
  /\ callbacks = 1 /\ disposed /\ ~Tracked
  /\ peer.active

\* the static cleanup() is running
InCleanup == \E i \in DOMAIN stack : stack[i].fn = "cleanup"

\* C19: the static cleanup() dispatches no event and calls no callback, and
\* when it returns the registry is empty and every controller that was in it
\* at the call is disposed, its request inactive, its handle released and
\* its timeout cancelled.
C19_CleanupDisposesAll ==
  /\ [][InCleanup => (events' = events /\ callbacks' = callbacks)]_vars
  /\ [][(At("cleanup", "loop") /\ stack' = Pop)
          => /\ sendInstances' = <<>>
             /\ 1 \in tracked
                  => (disposed' /\ ~active' /\ xhr' = Null /\ timeoutId' = Null
                      /\ timers' = {} /\ \A h \in DOMAIN handles : ~handles'[h].ontimeout)
             /\ 2 \in tracked => (peer'.disposed /\ ~peer'.active /\ ~peer'.timer)]_vars

\* cleanup() has ended two requests in flight, one of this controller with
\* its timer armed, without any event
C19_BothDisposedSilently ==
  /\ tracked = {1, 2}
  /\ stack = <<>> /\ exc = "none"
  /\ sendInstances = <<>>
  /\ disposed /\ peer.disposed
  /\ cycle = 1 /\ timeoutInterval > 0 /\ ~platform.xhr2Timeout /\ ~inSend
  /\ events = <<>> /\ callbacks = 0

\* C20 as stated: add(element, c1, ..., cn) returns true whenever every
\* class given is on the element after the call.
C20_AddReturnsTrue ==
  (called.fn = "add"
     /\ \A i \in DOMAIN called.args : contains(get(className), called.args[i]))
    => called.value

\* C21 as stated: remove(element, c1, ..., cn) returns true if and only if
\* every class given was on the element before the call and is not on it
\* after the call, also when the class string or the arguments name a class
\* more than once.
C21_RemoveReturnsWhetherAllRemoved ==
  called.fn = "remove"
    => (called.value
          <=> \A i \in DOMAIN called.args :
                /\ contains(get(called.before), called.args[i])
                /\ ~contains(get(className), called.args[i]))

\* the handle h is done with: released, or held by a request that has ended
Done(h) == h < cycle \/ (h = cycle /\ (xhr = Null \/ ~active))
\* the step is a notification of the handle h reaching the controller
NotificationOf(h) ==
  \/ \E r \in NotifyReadyStates \X Statuses : XhrNotifies(h, r[1], r[2])
  \/ /\ stack # <<>> /\ Top.h = h
     /\ \E r \in NotifyReadyStates \X Statuses : XhrNotifiesInCall(r[1], r[2])

\* C22 as stated: a notification of a handle whose terminal notification has
\* been processed, or that was aborted or released, dispatches no event and
\* changes no field of the controller, also while a later request is active
\* and also when the callback could not be detached from the handle.
C22_DoneHandleIsIgnored ==
  [][\A h \in 1..MaxSends :
       (NotificationOf(h) /\ Done(h))
         => (events' = events /\ deferred' = deferred /\ UNCHANGED ctrlVars)]_vars

\* C23 as stated: whenever the controller is active it holds a handle, also
\* after send() left through an exception of the factory or of the handle.
C23_ActiveHasHandle == active => xhr # Null

\* a call made by one of the functions fns, at the point pc, is on the stack
OnStack(fns, pc) == \E k \in DOMAIN stack : stack[k].fn \in fns /\ stack[k].pc = pc

\* C24 as stated: inOpen_, inSend_ and inAbort_ are true only while the
\* controller's own call of the handle's open(), send() or abort() is on the
\* stack, and false at any other time, also after that call threw.
C24_GuardsOnlyInsideCalls ==
  /\ inOpen => OnStack({"send"}, "open")
  /\ inSend => OnStack({"send"}, "xsend")
  /\ inAbort => OnStack({"abort", "error_", "disposeInternal"}, "xabort")

\* the timeout mechanisms armed: the timer of goog.Timer, the handle's own
TimerArmed == timers # {}
NativeArmed == \E h \in 1..MaxSends : handles[h].ontimeout
InSendAfterOpen == stack # <<>> /\ Top.fn = "send" /\ Top.pc = "open"
\* at most one mechanism is armed, and only for the handle held
OneTimeoutArmed ==
  /\ ~(TimerArmed /\ NativeArmed)
  /\ timers \subseteq {timeoutId}
  /\ \A h \in 1..MaxSends : handles[h].ontimeout => (h = xhr /\ useXhr2Timeout)
\* a step arms a mechanism only inside send(), and while the handle is held
\* an armed mechanism is either kept or cancelled, never exchanged
ArmedOnceInSend ==
  /\ (\/ timers' \ timers # {}
      \/ \E h \in 1..MaxSends : handles'[h].ontimeout /\ ~handles[h].ontimeout)
       => InSendAfterOpen
  /\ (xhr # Null /\ xhr' = xhr /\ ~InSendAfterOpen) => useXhr2Timeout' = useXhr2Timeout
  /\ (xhr # Null /\ xhr' = xhr /\ (TimerArmed \/ NativeArmed))
       => \/ TimerArmed' = TimerArmed /\ NativeArmed' = NativeArmed
          \/ ~TimerArmed' /\ ~NativeArmed'

\* C25 as stated: at most one timeout mechanism is armed, the timer and the
\* handle's own timeout never both; the choice is made once inside send()
\* and kept until the handle is released; and in no state is a timeout armed
\* while the timeout interval is 0.
C25_NothingArmedAtIntervalZero ==
  /\ []OneTimeoutArmed
  /\ [][ArmedOnceInSend]_vars
  /\ [](timeoutInterval = 0 => ~TimerArmed /\ ~NativeArmed)

\* C25 amended: as above, but a send() that runs with the interval 0 arms
\* nothing; setting the interval to 0 during a request leaves the timeout
\* that the request armed in place.
C25_OneTimeoutMechanism ==
  /\ []OneTimeoutArmed
  /\ [][ArmedOnceInSend]_vars
  /\ [][(InSendAfterOpen /\ timeoutInterval = 0) => (~TimerArmed' /\ ~NativeArmed')]_vars

\* the timer is armed for the request in flight and the interval was set to
\* 0 afterwards
C25_ArmedThenIntervalZero ==
  /\ active /\ xhr # Null /\ stack = <<>>
  /\ timers = {timeoutId} /\ ~NativeArmed
  /\ timeoutInterval = 0

\* the step dispatches TIMEOUT
NewTimeout == Len(events') = Len(events) + 1 /\ events'[Len(events')].e = "TIMEOUT"

OpenThrew(f) == f.fn = "send" /\ f.pc = "ret" /\ f.req.url # ""
\* the events of cycle c other than READY_STATE_CHANGE
Ending(c) == SelectSeq(CycleEvents(c), LAMBDA e : e # "READY_STATE_CHANGE")

\* C27 as stated: when open() throws inside send(), COMPLETE, ERROR (with
\* the error code EXCEPTION) and READY are dispatched in that order and
\* send() returns: it sets no header, arms no timeout and does not call the
\* handle's send(); afterwards the controller holds no handle and is not
\* active.
C27_OpenThrowsEndsCycle ==
  /\ [][XhrOpenThrows => OpenThrew(stack'[Len(stack)])]_vars
  /\ [][\A k \in DOMAIN stack :
          (OpenThrew(stack[k]) /\ k \in DOMAIN stack') => stack'[k] = stack[k]]_vars
  /\ [][(ErrorDispatchError /\ Top.code = "EXCEPTION") => lastErrorCode = "EXCEPTION"]_vars
  /\ []((At("send", "ret") /\ OpenThrew(Top) /\ ~disposed)
          => /\ Ending(Top.h) = <<"COMPLETE", "ERROR", "READY">>
             /\ ~handles[Top.h].ontimeout /\ Top.h \notin timers
             /\ cycle = Top.h => (xhr = Null /\ ~active /\ sentHeaders = <<>>))

\* the step is a callback of the transport or of a timer reaching the
\* controller: a readiness notification, a deferred one, a timeout
Callback ==
  \/ notified' = notified + 1
  \/ DeferredNotificationFires
  \/ TimeoutCalled
  \/ \E id \in 1..MaxSends : TimeoutTimerFires(id)
  \/ \E h \in 1..MaxSends : XhrTimeoutFires(h)

C29_SendKeepsBaseHeaders ==
  [][headers' # headers => \E e \in BaseHeaders : SetHeader(e[1], e[2])]_vars

\* a POST overrode X-A of the map and got the form content type; the map
\* holds what user code put there
C29_MapKeptAfterPost ==
  /\ headers = << <<"X-A", "1">> >>
  /\ lastMethod = "POST"
  /\ stack = <<>>
  /\ sentHeaders = << <<"X-A", "2">>,
                      <<"Content-Type", "application/x-www-form-urlencoded;charset=utf-8">> >>

\* the events of cycle c dispatched after the first m of the log
Since(m, c) ==
  LET tail == SubSeq(events, m + 1, Len(events))
      of == SelectSeq(tail, LAMBDA x : x.c = c)
  IN [i \in DOMAIN of |-> of[i].e]
\* the handler is back from the listeners of READY_STATE_CHANGE, the handle
\* it was notified by is at complete readiness, and a listener aborted (and
\* none disposed of the controller)
AbortedByListener ==
  /\ At("onReadyStateChange_", "rsc")
  /\ ~disposed
  /\ handles[Top.h].readyState = COMPLETE
  /\ \E i \in DOMAIN Since(Top.mark, Top.h) : Since(Top.mark, Top.h)[i] = "ABORT"

\* C30: when a listener of READY_STATE_CHANGE calls abort() with the handle
\* at complete readiness, the events of the cycle from READY_STATE_CHANGE on
\* are exactly COMPLETE, ABORT, READY, and the handler, back from the
\* listener, dispatches nothing more for the cycle and changes no field.
C30_AbortInReadyStateChangeListener ==
  /\ [](AbortedByListener
          => Since(Top.mark, Top.h) = <<"READY_STATE_CHANGE", "COMPLETE", "ABORT", "READY">>)
  /\ [][(AbortedByListener /\ HelperAfterReadyStateChange)
          => /\ \A i \in DOMAIN events' : i > Len(events) => events'[i].c # Top.h
             /\ cycle = Top.h => (events' = events /\ stack' = Pop /\ UNCHANGED ctrlVars)]_vars

\* the one notification of the request reported complete readiness and
\* status 200, its listener aborted, and the handler has returned
C30_AbortedAtCompleteReadiness ==
  /\ stack = <<>> /\ cycle = 1 /\ notified = 1 /\ deferred = 0
  /\ handles[1].readyState = COMPLETE /\ handles[1].status = 200
  /\ Dispatched = <<"READY_STATE_CHANGE", "COMPLETE", "ABORT", "READY">>
  /\ lastErrorCode = "ABORT" /\ xhr = Null /\ ~active

\* a pending zero-delay timer is of an earlier cycle for certain: a request
\* is in flight whose handle has not reported complete readiness, so that
\* this request deferred nothing
StaleDeferred ==
  /\ deferred > 0
  /\ xhr # Null /\ active
  /\ handles[xhr].readyState < COMPLETE

\* C31 as stated: the zero-delay timer of a notification deferred inside
\* send() dispatches no event in another cycle than the one that scheduled
\* it: fired while a later request is in flight, it dispatches nothing.
C31_DeferredStaysInItsCycle ==
  [][(StaleDeferred /\ DeferredNotificationFires) => events' = events]_vars

\* cleanupSend_ is between its dispose() and its goog.array.remove
InCleanupSend ==
  \E k \in DOMAIN stack :
     stack[k].fn = "listener" /\ stack[k].code = "READY" /\ stack[k].pc = "remove"

\* C32 as stated: no controller in the registry of the static send() is
\* disposed, whether its READY handler, cleanup() or the caller's callback
\* (during COMPLETE) disposed of it; cleanupSend_ itself, which disposes and
\* then removes, is the one place where it is.
C32_RegistryHoldsNoDisposed ==
  /\ (disposed /\ Tracked) => InCleanupSend
  /\ peer.disposed => \A i \in DOMAIN sendInstances : sendInstances[i] # 2

\* no class is in the list twice
NoDuplicates(classes) ==
  \A i \in DOMAIN classes : \A j \in DOMAIN classes : i # j => classes[i] # classes[j]

\* C33 as stated: on an element that starts without a class named twice,
\* after any sequence of add, remove, swap, addRemove, enable and toggle
\* the class list names no class twice.
C33_NoDuplicateClasses == NoDuplicates(get(className))
====
